---- MODULE Spec2Model ----
(***************************************************************************)
(* Model of the chess rules engine (js/chess-engine.js), of the search     *)
(* agent built on it (js/bot.js) and of the page that drives them (app.js). *)
(* A position is the record built by createGameState; makeMove and         *)
(* undoMove are the operations of the engine that change it.  Rows and     *)
(* columns are 0..7, row 0 is Black's back rank.                           *)
(***************************************************************************)
EXTENDS Integers, Sequences, FiniteSets, TLC

VARIABLES
  gameState,      \* the position: the object made by createGameState
  last,           \* the last call made on it, its argument and what it returned
  killerMoves,    \* the killer-move store of the search agent
  botDifficulty,  \* the difficulty getBotMove is called with
  search,         \* the local variables of the running search
  script,         \* the moves of the game still to be played on the board
  budget,         \* the calls the model may still make after the game
  ui              \* the globals of the page and its pending callbacks

vars == <<gameState, last, killerMoves, botDifficulty, search, script, budget, ui>>

-----------------------------------------------------------------------------
(* Piece constants *)

EMPTY == 0
WP == 1
WN == 2
WB == 3
WR == 4
WQ == 5
WK == 6
BP == 7
BN == 8
BB == 9
BR == 10
BQ == 11
BK == 12

(* JavaScript null for the enPassant field, and for result *)
NullSquare == [row |-> -1, col |-> -1]
NullResult == "null"

isWhite(p) == p >= 1 /\ p <= 6
isBlack(p) == p >= 7 /\ p <= 12
colorOf(p) == IF isWhite(p) THEN "w" ELSE IF isBlack(p) THEN "b" ELSE "null"
isAlly(p, turn) == IF turn = "w" THEN isWhite(p) ELSE isBlack(p)
isEnemy(p, turn) == IF turn = "w" THEN isBlack(p) ELSE isWhite(p)
inBounds(r, c) == r >= 0 /\ r < 8 /\ c >= 0 /\ c < 8

(* The number of squares of board that hold piece *)
CountOf(board, piece) == Cardinality({i \in 0..63 : board[i \div 8][i % 8] = piece})

(* Row r of a board written as a JavaScript array literal *)
BoardRow(t) == [c \in 0..7 |-> t[c + 1]]

createInitialBoard ==
  [r \in 0..7 |->
     CASE r = 0 -> BoardRow(<<BR, BN, BB, BQ, BK, BB, BN, BR>>)
       [] r = 1 -> BoardRow(<<BP, BP, BP, BP, BP, BP, BP, BP>>)
       [] r = 6 -> BoardRow(<<WP, WP, WP, WP, WP, WP, WP, WP>>)
       [] r = 7 -> BoardRow(<<WR, WN, WB, WQ, WK, WB, WN, WR>>)
       [] OTHER -> BoardRow(<<0, 0, 0, 0, 0, 0, 0, 0>>)]

createGameState ==
  [board |-> createInitialBoard,
   turn |-> "w",
   castling |-> [wK |-> TRUE, wQ |-> TRUE, bK |-> TRUE, bQ |-> TRUE],
   enPassant |-> NullSquare,
   halfMoveClock |-> 0,
   fullMoveNumber |-> 1,
   history |-> <<>>,
   capturedWhite |-> <<>>,
   capturedBlack |-> <<>>,
   moveList |-> <<>>,
   isGameOver |-> FALSE,
   result |-> NullResult]

(* The snapshot pushed on history: every field but history, isGameOver, result *)
cloneState(s) ==
  [board |-> s.board,
   turn |-> s.turn,
   castling |-> s.castling,
   enPassant |-> s.enPassant,
   halfMoveClock |-> s.halfMoveClock,
   fullMoveNumber |-> s.fullMoveNumber,
   capturedWhite |-> s.capturedWhite,
   capturedBlack |-> s.capturedBlack,
   moveList |-> s.moveList]

-----------------------------------------------------------------------------
(* Move generation *)

(* The sequences ss[lo], ..., ss[hi] joined in that order *)
RECURSIVE FlattenRange(_, _, _)
FlattenRange(ss, lo, hi) ==
  IF lo > hi THEN <<>>
  ELSE IF lo = hi THEN ss[lo]
  ELSE FlattenRange(ss, lo, (lo + hi) \div 2) \o FlattenRange(ss, (lo + hi) \div 2 + 1, hi)

FlattenSeq(ss) == FlattenRange(ss, 1, Len(ss))

(* The object literal pushed by addMove; an absent flag is FALSE, an absent *)
(* promotionPiece is 0                                                      *)
addMove(r, c, tr, tc, flags) ==
  [fromR |-> r, fromC |-> c, toR |-> tr, toC |-> tc,
   capture |-> "capture" \in flags,
   promotion |-> "promotion" \in flags,
   doublePush |-> "doublePush" \in flags,
   enPassant |-> "enPassant" \in flags,
   castleKing |-> "castleKing" \in flags,
   castleQueen |-> "castleQueen" \in flags,
   promotionPiece |-> 0]

KnightOffsets == <<<<-2,-1>>, <<-2,1>>, <<-1,-2>>, <<-1,2>>, <<1,-2>>, <<1,2>>, <<2,-1>>, <<2,1>>>>
KingOffsets == <<<<-1,-1>>, <<-1,0>>, <<-1,1>>, <<0,-1>>, <<0,1>>, <<1,-1>>, <<1,0>>, <<1,1>>>>
DiagonalDirs == <<<<-1,-1>>, <<-1,1>>, <<1,-1>>, <<1,1>>>>
StraightDirs == <<<<-1,0>>, <<1,0>>, <<0,-1>>, <<0,1>>>>

(* One direction of slideMoves, from (nr, nc) onwards *)
RECURSIVE slideRay(_, _, _, _, _, _, _, _)
slideRay(board, turn, r, c, nr, nc, dr, dc) ==
  IF ~inBounds(nr, nc) THEN <<>>
  ELSE IF board[nr][nc] = EMPTY
       THEN <<addMove(r, c, nr, nc, {})>> \o slideRay(board, turn, r, c, nr + dr, nc + dc, dr, dc)
       ELSE IF isEnemy(board[nr][nc], turn)
            THEN <<addMove(r, c, nr, nc, {"capture"})>>
            ELSE <<>>

slideMoves(board, turn, r, c, dirs) ==
  FlattenSeq([i \in 1..Len(dirs) |->
     slideRay(board, turn, r, c, r + dirs[i][1], c + dirs[i][2], dirs[i][1], dirs[i][2])])

stepMoves(board, turn, r, c, offsets) ==
  FlattenSeq([i \in 1..Len(offsets) |->
     LET nr == r + offsets[i][1]
         nc == c + offsets[i][2]
     IN IF inBounds(nr, nc) /\ (board[nr][nc] = EMPTY \/ isEnemy(board[nr][nc], turn))
        THEN <<addMove(r, c, nr, nc, IF board[nr][nc] # EMPTY THEN {"capture"} ELSE {})>>
        ELSE <<>>])

(* One direction of a reverse ray of isSquareAttacked: the first piece met *)
RECURSIVE attackRay(_, _, _, _, _, _)
attackRay(board, nr, nc, dr, dc, attackers) ==
  IF ~inBounds(nr, nc) THEN FALSE
  ELSE IF board[nr][nc] # EMPTY THEN board[nr][nc] \in attackers
       ELSE attackRay(board, nr + dr, nc + dc, dr, dc, attackers)

(* isSquareAttacked that takes the en-passant target of the game for attacked *)
isSquareAttacked_EnPassantTarget(board, r, c, turn) ==
  LET enemy == IF turn = "w" THEN "b" ELSE "w"
      pDir == IF turn = "w" THEN -1 ELSE 1
      at(nr, nc, p) == inBounds(nr, nc) /\ board[nr][nc] = p
  IN \/ \E dc \in {-1, 1} : at(r + pDir, c + dc, IF enemy = "b" THEN BP ELSE WP)
     \/ \E i \in 1..8 : at(r + KnightOffsets[i][1], c + KnightOffsets[i][2],
                           IF enemy = "b" THEN BN ELSE WN)
     \/ \E i \in 1..4 : attackRay(board, r + DiagonalDirs[i][1], c + DiagonalDirs[i][2],
                           DiagonalDirs[i][1], DiagonalDirs[i][2],
                           IF enemy = "b" THEN {BB, BQ} ELSE {WB, WQ})
     \/ \E i \in 1..4 : attackRay(board, r + StraightDirs[i][1], c + StraightDirs[i][2],
                           StraightDirs[i][1], StraightDirs[i][2],
                           IF enemy = "b" THEN {BR, BQ} ELSE {WR, WQ})
     \/ \E i \in 1..8 : at(r + KingOffsets[i][1], c + KingOffsets[i][2],
                           IF enemy = "b" THEN BK ELSE WK)
     \/ (gameState.enPassant.row = r /\ gameState.enPassant.col = c)

(* Is (r, c) attacked by the opponent of turn *)
isSquareAttacked(board, r, c, turn) ==
  LET enemy == IF turn = "w" THEN "b" ELSE "w"
      pDir == IF turn = "w" THEN -1 ELSE 1
      at(nr, nc, p) == inBounds(nr, nc) /\ board[nr][nc] = p
  IN \/ \E dc \in {-1, 1} : at(r + pDir, c + dc, IF enemy = "b" THEN BP ELSE WP)
     \/ \E i \in 1..8 : at(r + KnightOffsets[i][1], c + KnightOffsets[i][2],
                           IF enemy = "b" THEN BN ELSE WN)
     \/ \E i \in 1..4 : attackRay(board, r + DiagonalDirs[i][1], c + DiagonalDirs[i][2],
                           DiagonalDirs[i][1], DiagonalDirs[i][2],
                           IF enemy = "b" THEN {BB, BQ} ELSE {WB, WQ})
     \/ \E i \in 1..4 : attackRay(board, r + StraightDirs[i][1], c + StraightDirs[i][2],
                           StraightDirs[i][1], StraightDirs[i][2],
                           IF enemy = "b" THEN {BR, BQ} ELSE {WR, WQ})
     \/ \E i \in 1..8 : at(r + KingOffsets[i][1], c + KingOffsets[i][2],
                           IF enemy = "b" THEN BK ELSE WK)

(* Pawn moves of getPseudoLegalMoves *)
pawnMoves(state, r, c, turn) ==
  LET board == state.board
      dir == IF turn = "w" THEN -1 ELSE 1
      startRow == IF turn = "w" THEN 6 ELSE 1
      promoRow == IF turn = "w" THEN 0 ELSE 7
      forward ==
        IF inBounds(r + dir, c) /\ board[r + dir][c] = EMPTY
        THEN <<addMove(r, c, r + dir, c, IF r + dir = promoRow THEN {"promotion"} ELSE {})>>
             \o (IF r = startRow /\ board[r + 2 * dir][c] = EMPTY
                 THEN <<addMove(r, c, r + 2 * dir, c, {"doublePush"})>>
                 ELSE <<>>)
        ELSE <<>>
      captureTo(dc) ==
        LET nr == r + dir
            nc == c + dc
        IN IF inBounds(nr, nc)
           THEN (IF isEnemy(board[nr][nc], turn)
                 THEN <<addMove(r, c, nr, nc,
                          IF nr = promoRow THEN {"capture", "promotion"} ELSE {"capture"})>>
                 ELSE <<>>)
                \o (IF state.enPassant # NullSquare /\ state.enPassant.row = nr
                       /\ state.enPassant.col = nc
                    THEN <<addMove(r, c, nr, nc, {"capture", "enPassant"})>>
                    ELSE <<>>)
           ELSE <<>>
  IN forward \o captureTo(-1) \o captureTo(1)

(* castlingMoves without the test of the square the king passes over *)
castlingMoves_NoPassThrough(state, r, c, turn) ==
  LET board == state.board
      row == IF turn = "w" THEN 7 ELSE 0
      ksRight == IF turn = "w" THEN state.castling.wK ELSE state.castling.bK
      qsRight == IF turn = "w" THEN state.castling.wQ ELSE state.castling.bQ
  IN IF r = row /\ c = 4
     THEN (IF ksRight /\ board[row][5] = EMPTY /\ board[row][6] = EMPTY
              /\ ~isSquareAttacked(board, row, 4, turn)
              /\ ~isSquareAttacked(board, row, 6, turn)
           THEN <<addMove(r, c, row, 6, {"castleKing"})>>
           ELSE <<>>)
          \o (IF qsRight /\ board[row][3] = EMPTY /\ board[row][2] = EMPTY
                 /\ board[row][1] = EMPTY
                 /\ ~isSquareAttacked(board, row, 4, turn)
                 /\ ~isSquareAttacked(board, row, 2, turn)
              THEN <<addMove(r, c, row, 2, {"castleQueen"})>>
              ELSE <<>>)
     ELSE <<>>

(* The castling block of getPseudoLegalMoves *)
castlingMoves(state, r, c, turn) ==
  LET board == state.board
      row == IF turn = "w" THEN 7 ELSE 0
      ksRight == IF turn = "w" THEN state.castling.wK ELSE state.castling.bK
      qsRight == IF turn = "w" THEN state.castling.wQ ELSE state.castling.bQ
  IN IF r = row /\ c = 4
     THEN (IF ksRight /\ board[row][5] = EMPTY /\ board[row][6] = EMPTY
              /\ ~isSquareAttacked(board, row, 4, turn)
              /\ ~isSquareAttacked(board, row, 5, turn)
              /\ ~isSquareAttacked(board, row, 6, turn)
           THEN <<addMove(r, c, row, 6, {"castleKing"})>>
           ELSE <<>>)
          \o (IF qsRight /\ board[row][3] = EMPTY /\ board[row][2] = EMPTY
                 /\ board[row][1] = EMPTY
                 /\ ~isSquareAttacked(board, row, 4, turn)
                 /\ ~isSquareAttacked(board, row, 3, turn)
                 /\ ~isSquareAttacked(board, row, 2, turn)
              THEN <<addMove(r, c, row, 2, {"castleQueen"})>>
              ELSE <<>>)
     ELSE <<>>

getPseudoLegalMoves(state, r, c) ==
  LET board == state.board
      piece == board[r][c]
      turn == colorOf(piece)
  IN IF piece = EMPTY THEN <<>>
     ELSE IF piece \in {WP, BP} THEN pawnMoves(state, r, c, turn)
     ELSE IF piece \in {WN, BN} THEN stepMoves(board, turn, r, c, KnightOffsets)
     ELSE IF piece \in {WB, BB} THEN slideMoves(board, turn, r, c, DiagonalDirs)
     ELSE IF piece \in {WR, BR} THEN slideMoves(board, turn, r, c, StraightDirs)
     ELSE IF piece \in {WQ, BQ} THEN slideMoves(board, turn, r, c, DiagonalDirs \o StraightDirs)
     ELSE stepMoves(board, turn, r, c, KingOffsets) \o castlingMoves(state, r, c, turn)

(* The king's square, or NullSquare *)
findKing(board, turn) ==
  LET king == IF turn = "w" THEN WK ELSE BK
      squares == {i \in 0..63 : board[i \div 8][i % 8] = king}
  IN IF squares = {} THEN NullSquare
     ELSE LET i == CHOOSE i \in squares : \A j \in squares : i <= j
          IN [row |-> i \div 8, col |-> i % 8]

isInCheck(board, turn) ==
  LET k == findKing(board, turn)
  IN IF k # NullSquare THEN isSquareAttacked(board, k.row, k.col, turn) ELSE FALSE

(* The board after the move's effect on a copy; the default promotion is a queen *)
applyMoveToBoard(board, move, state) ==
  LET piece == board[move.fromR][move.fromC]
      b1 == [board EXCEPT ![move.toR][move.toC] = piece]
      b2 == [b1 EXCEPT ![move.fromR][move.fromC] = EMPTY]
      b3 == IF move.enPassant
            THEN [b2 EXCEPT ![move.toR + (IF state.turn = "w" THEN 1 ELSE -1)][move.toC] = EMPTY]
            ELSE b2
      b4 == IF move.castleKing
            THEN [b3 EXCEPT ![move.fromR][5] = b3[move.fromR][7], ![move.fromR][7] = EMPTY]
            ELSE b3
      b5 == IF move.castleQueen
            THEN [b4 EXCEPT ![move.fromR][3] = b4[move.fromR][0], ![move.fromR][0] = EMPTY]
            ELSE b4
  IN IF move.promotion /\ move.promotionPiece = 0
     THEN [b5 EXCEPT ![move.toR][move.toC] = IF state.turn = "w" THEN WQ ELSE BQ]
     ELSE IF move.promotionPiece # 0
          THEN [b5 EXCEPT ![move.toR][move.toC] = move.promotionPiece]
          ELSE b5

(* getLegalMoves without the test that the mover's king is left unattacked *)
getLegalMoves_Unfiltered(state, r, c) == getPseudoLegalMoves(state, r, c)

getLegalMoves(state, r, c) ==
  SelectSeq(getPseudoLegalMoves(state, r, c),
            LAMBDA move : ~isInCheck(applyMoveToBoard(state.board, move, state), state.turn))

getAllLegalMoves(state) ==
  FlattenSeq([i \in 1..64 |->
     LET r == (i - 1) \div 8
         c == (i - 1) % 8
     IN IF isAlly(state.board[r][c], state.turn) THEN getLegalMoves(state, r, c) ELSE <<>>])

-----------------------------------------------------------------------------
(* Notation *)

Files == <<"a", "b", "c", "d", "e", "f", "g", "h">>
Ranks == <<"8", "7", "6", "5", "4", "3", "2", "1">>

(* buildNotation that never names the square a piece comes from *)
buildNotation_NoOrigin(state, move, piece, captured) ==
  IF move.castleKing THEN "O-O"
  ELSE IF move.castleQueen THEN "O-O-O"
  ELSE
    LET pType == IF piece \in {WP, BP} THEN "P"
                 ELSE IF piece \in {WN, BN} THEN "N"
                 ELSE IF piece \in {WB, BB} THEN "B"
                 ELSE IF piece \in {WR, BR} THEN "R"
                 ELSE IF piece \in {WQ, BQ} THEN "Q" ELSE "K"
        sameTypeMoves ==
          SelectSeq(getAllLegalMoves(state),
                    LAMBDA m : /\ state.board[m.fromR][m.fromC] = piece
                               /\ m.toR = move.toR /\ m.toC = move.toC
                               /\ (m.fromR # move.fromR \/ m.fromC # move.fromC))
        sameFile == \E i \in 1..Len(sameTypeMoves) : sameTypeMoves[i].fromC = move.fromC
        sameRank == \E i \in 1..Len(sameTypeMoves) : sameTypeMoves[i].fromR = move.fromR
        isCapture == captured # EMPTY \/ move.enPassant
        prefix ==
          IF pType # "P"
          THEN pType
          ELSE IF isCapture THEN Files[move.fromC + 1] ELSE ""
        promoType ==
          IF piece <= 6
          THEN (CASE move.promotionPiece = WQ -> "Q" [] move.promotionPiece = WR -> "R"
                  [] move.promotionPiece = WB -> "B" [] move.promotionPiece = WN -> "N"
                  [] OTHER -> "Q")
          ELSE (CASE move.promotionPiece = BQ -> "Q" [] move.promotionPiece = BR -> "R"
                  [] move.promotionPiece = BB -> "B" [] move.promotionPiece = BN -> "N"
                  [] OTHER -> "Q")
    IN prefix \o (IF isCapture THEN "x" ELSE "")
              \o Files[move.toC + 1] \o Ranks[move.toR + 1]
              \o (IF move.promotionPiece # 0 THEN "=" \o promoType ELSE "")

buildNotation(state, move, piece, captured) ==
  IF move.castleKing THEN "O-O"
  ELSE IF move.castleQueen THEN "O-O-O"
  ELSE
    LET pType == IF piece \in {WP, BP} THEN "P"
                 ELSE IF piece \in {WN, BN} THEN "N"
                 ELSE IF piece \in {WB, BB} THEN "B"
                 ELSE IF piece \in {WR, BR} THEN "R"
                 ELSE IF piece \in {WQ, BQ} THEN "Q" ELSE "K"
        sameTypeMoves ==
          SelectSeq(getAllLegalMoves(state),
                    LAMBDA m : /\ state.board[m.fromR][m.fromC] = piece
                               /\ m.toR = move.toR /\ m.toC = move.toC
                               /\ (m.fromR # move.fromR \/ m.fromC # move.fromC))
        sameFile == \E i \in 1..Len(sameTypeMoves) : sameTypeMoves[i].fromC = move.fromC
        sameRank == \E i \in 1..Len(sameTypeMoves) : sameTypeMoves[i].fromR = move.fromR
        isCapture == captured # EMPTY \/ move.enPassant
        prefix ==
          IF pType # "P"
          THEN pType \o (IF Len(sameTypeMoves) > 0
                         THEN (IF ~sameFile THEN Files[move.fromC + 1]
                               ELSE IF ~sameRank THEN Ranks[move.fromR + 1]
                               ELSE Files[move.fromC + 1] \o Ranks[move.fromR + 1])
                         ELSE "")
          ELSE IF isCapture THEN Files[move.fromC + 1] ELSE ""
        promoType ==
          IF piece <= 6
          THEN (CASE move.promotionPiece = WQ -> "Q" [] move.promotionPiece = WR -> "R"
                  [] move.promotionPiece = WB -> "B" [] move.promotionPiece = WN -> "N"
                  [] OTHER -> "Q")
          ELSE (CASE move.promotionPiece = BQ -> "Q" [] move.promotionPiece = BR -> "R"
                  [] move.promotionPiece = BB -> "B" [] move.promotionPiece = BN -> "N"
                  [] OTHER -> "Q")
    IN prefix \o (IF isCapture THEN "x" ELSE "")
              \o Files[move.toC + 1] \o Ranks[move.toR + 1]
              \o (IF move.promotionPiece # 0 THEN "=" \o promoType ELSE "")

-----------------------------------------------------------------------------
(* Terminal conditions *)

isInsufficientMaterial(board) ==
  LET squares == SelectSeq([i \in 1..64 |-> i - 1],
                           LAMBDA i : board[i \div 8][i % 8] # EMPTY)
      pieceAt(i) == board[i \div 8][i % 8]
      nonKings == SelectSeq(squares, LAMBDA i : pieceAt(i) # WK /\ pieceAt(i) # BK)
      bishops == SelectSeq(squares, LAMBDA i : pieceAt(i) = WB \/ pieceAt(i) = BB)
      squareColor(i) == ((i \div 8) + (i % 8)) % 2
  IN IF Len(squares) = 2 THEN TRUE
     ELSE IF Len(squares) = 3 /\ Len(nonKings) > 0
             /\ pieceAt(nonKings[1]) \in {WN, BN, WB, BB} THEN TRUE
     ELSE IF Len(squares) = 4 /\ Len(bishops) = 2
             /\ squareColor(bishops[1]) = squareColor(bishops[2]) THEN TRUE
     ELSE FALSE

-----------------------------------------------------------------------------
(* Make and unmake *)

(* recordCaptures without the block for the en-passant victim *)
recordCaptures_NoEnPassant(state, move, captured) ==
  [white |-> IF captured # EMPTY /\ isWhite(captured)
             THEN Append(state.capturedWhite, captured) ELSE state.capturedWhite,
   black |-> IF captured # EMPTY /\ ~isWhite(captured)
             THEN Append(state.capturedBlack, captured) ELSE state.capturedBlack]

(* The captured lists after the capture blocks of makeMove *)
recordCaptures(state, move, captured) ==
  LET cw1 == IF captured # EMPTY /\ isWhite(captured)
             THEN Append(state.capturedWhite, captured) ELSE state.capturedWhite
      cb1 == IF captured # EMPTY /\ ~isWhite(captured)
             THEN Append(state.capturedBlack, captured) ELSE state.capturedBlack
      epPiece == state.board[move.toR + (IF state.turn = "w" THEN 1 ELSE -1)][move.toC]
  IN [white |-> IF move.enPassant /\ isWhite(epPiece) THEN Append(cw1, epPiece) ELSE cw1,
      black |-> IF move.enPassant /\ ~isWhite(epPiece) THEN Append(cb1, epPiece) ELSE cb1]

(* movePiece with the kingside rook put on the king's square, column 6 *)
movePiece_RookOntoKing(state, move) ==
  LET board == state.board
      piece == board[move.fromR][move.fromC]
      b1 == IF move.enPassant
            THEN [board EXCEPT ![move.toR + (IF state.turn = "w" THEN 1 ELSE -1)][move.toC] = EMPTY]
            ELSE board
      b2 == [b1 EXCEPT ![move.toR][move.toC] = piece]
      b3 == [b2 EXCEPT ![move.fromR][move.fromC] = EMPTY]
      b4 == IF move.castleKing
            THEN [b3 EXCEPT ![move.fromR][6] = b3[move.fromR][7], ![move.fromR][7] = EMPTY]
            ELSE b3
  IN IF move.castleQueen
     THEN [b4 EXCEPT ![move.fromR][3] = b4[move.fromR][0], ![move.fromR][0] = EMPTY]
     ELSE b4

(* movePiece that leaves the pawn taken en passant on the board *)
movePiece_EnPassantVictimStays(state, move) ==
  LET board == state.board
      piece == board[move.fromR][move.fromC]
      b2 == [board EXCEPT ![move.toR][move.toC] = piece]
      b3 == [b2 EXCEPT ![move.fromR][move.fromC] = EMPTY]
      b4 == IF move.castleKing
            THEN [b3 EXCEPT ![move.fromR][5] = b3[move.fromR][7], ![move.fromR][7] = EMPTY]
            ELSE b3
  IN IF move.castleQueen
     THEN [b4 EXCEPT ![move.fromR][3] = b4[move.fromR][0], ![move.fromR][0] = EMPTY]
     ELSE b4

(* The board after the en-passant removal, the piece move and the castling rook *)
movePiece(state, move) ==
  LET board == state.board
      piece == board[move.fromR][move.fromC]
      b1 == IF move.enPassant
            THEN [board EXCEPT ![move.toR + (IF state.turn = "w" THEN 1 ELSE -1)][move.toC] = EMPTY]
            ELSE board
      b2 == [b1 EXCEPT ![move.toR][move.toC] = piece]
      b3 == [b2 EXCEPT ![move.fromR][move.fromC] = EMPTY]
      b4 == IF move.castleKing
            THEN [b3 EXCEPT ![move.fromR][5] = b3[move.fromR][7], ![move.fromR][7] = EMPTY]
            ELSE b3
  IN IF move.castleQueen
     THEN [b4 EXCEPT ![move.fromR][3] = b4[move.fromR][0], ![move.fromR][0] = EMPTY]
     ELSE b4

(* The promotion block of makeMove *)
promote(board, move) ==
  IF move.promotionPiece # 0
  THEN [board EXCEPT ![move.toR][move.toC] = move.promotionPiece]
  ELSE board

(* updateCastling without the clearing of a right by a capture on a corner *)
updateCastling_IgnoresCapture(castling, piece, move) ==
  [wK |-> castling.wK /\ piece # WK
            /\ ~(piece = WR /\ move.fromR = 7 /\ move.fromC = 7),
   wQ |-> castling.wQ /\ piece # WK
            /\ ~(piece = WR /\ move.fromR = 7 /\ move.fromC = 0),
   bK |-> castling.bK /\ piece # BK
            /\ ~(piece = BR /\ move.fromR = 0 /\ move.fromC = 7),
   bQ |-> castling.bQ /\ piece # BK
            /\ ~(piece = BR /\ move.fromR = 0 /\ move.fromC = 0)]

(* updateCastling in which a king move clears the kingside right only *)
updateCastling_KingsideOnly(castling, piece, move) ==
  [wK |-> castling.wK /\ piece # WK
            /\ ~(piece = WR /\ move.fromR = 7 /\ move.fromC = 7)
            /\ ~(move.toR = 7 /\ move.toC = 7),
   wQ |-> castling.wQ
            /\ ~(piece = WR /\ move.fromR = 7 /\ move.fromC = 0)
            /\ ~(move.toR = 7 /\ move.toC = 0),
   bK |-> castling.bK /\ piece # BK
            /\ ~(piece = BR /\ move.fromR = 0 /\ move.fromC = 7)
            /\ ~(move.toR = 0 /\ move.toC = 7),
   bQ |-> castling.bQ
            /\ ~(piece = BR /\ move.fromR = 0 /\ move.fromC = 0)
            /\ ~(move.toR = 0 /\ move.toC = 0)]

(* The castling rights after a move of piece *)
updateCastling(castling, piece, move) ==
  [wK |-> castling.wK /\ piece # WK
            /\ ~(piece = WR /\ move.fromR = 7 /\ move.fromC = 7)
            /\ ~(move.toR = 7 /\ move.toC = 7),
   wQ |-> castling.wQ /\ piece # WK
            /\ ~(piece = WR /\ move.fromR = 7 /\ move.fromC = 0)
            /\ ~(move.toR = 7 /\ move.toC = 0),
   bK |-> castling.bK /\ piece # BK
            /\ ~(piece = BR /\ move.fromR = 0 /\ move.fromC = 7)
            /\ ~(move.toR = 0 /\ move.toC = 7),
   bQ |-> castling.bQ /\ piece # BK
            /\ ~(piece = BR /\ move.fromR = 0 /\ move.fromC = 0)
            /\ ~(move.toR = 0 /\ move.toC = 0)]

(* enPassantTarget that keeps the old target after a move that is no double push *)
enPassantTarget_NotCleared(state, move) ==
  IF move.doublePush
  THEN [row |-> IF state.turn = "w" THEN move.fromR - 1 ELSE move.fromR + 1,
        col |-> move.fromC]
  ELSE state.enPassant

(* enPassantTarget that names the square the pawn lands on *)
enPassantTarget_OnPawn(state, move) ==
  IF move.doublePush
  THEN [row |-> move.toR, col |-> move.fromC]
  ELSE NullSquare

(* The en-passant target after the move *)
enPassantTarget(state, move) ==
  IF move.doublePush
  THEN [row |-> IF state.turn = "w" THEN move.fromR - 1 ELSE move.fromR + 1,
        col |-> move.fromC]
  ELSE NullSquare

(* nextHalfMoveClock that a capture by a piece does not reset *)
nextHalfMoveClock_PawnMovesOnly(state, move, piece, captured) ==
  IF piece = WP \/ piece = BP THEN 0 ELSE state.halfMoveClock + 1

(* The half-move clock after the move *)
nextHalfMoveClock(state, move, piece, captured) ==
  IF piece = WP \/ piece = BP \/ captured # EMPTY \/ move.enPassant
  THEN 0 ELSE state.halfMoveClock + 1

(* outcome that marks a mate with "+" as it marks a check *)
outcome_PlusOnMate(moved, notation, noMoves, inCheck, insufficient, winner) ==
  LET finalNotation == IF inCheck THEN notation \o "+" ELSE notation
      over1 == IF noMoves THEN TRUE ELSE moved.isGameOver
      res1 == IF noMoves THEN (IF inCheck THEN winner ELSE "draw") ELSE moved.result
      over2 == over1 \/ insufficient
      res2 == IF ~over1 /\ insufficient THEN "draw" ELSE res1
      fifty == ~over2 /\ moved.halfMoveClock >= 100
  IN [notation |-> finalNotation, inCheck |-> inCheck,
      isGameOver |-> over2 \/ fifty, result |-> IF fifty THEN "draw" ELSE res2]

(* The flags and the notation makeMove ends with, from the three tests it *)
(* makes on the position after the move; winner is the result of a mate   *)
(* A variant that applies the draw rules before the test for mate *)
outcome_DrawOutranksMate(moved, notation, noMoves, inCheck, insufficient, winner) ==
  LET draw == insufficient \/ moved.halfMoveClock >= 100
      over == draw \/ noMoves \/ moved.isGameOver
      res == IF draw THEN "draw"
             ELSE IF noMoves THEN (IF inCheck THEN winner ELSE "draw")
             ELSE moved.result
  IN [notation |-> notation, inCheck |-> inCheck, isGameOver |-> over, result |-> res]

outcome(moved, notation, noMoves, inCheck, insufficient, winner) ==
  LET finalNotation ==
        IF noMoves THEN (IF inCheck THEN notation \o "#" ELSE notation)
        ELSE IF inCheck THEN notation \o "+" ELSE notation
      over1 == IF noMoves THEN TRUE ELSE moved.isGameOver
      res1 == IF noMoves THEN (IF inCheck THEN winner ELSE "draw") ELSE moved.result
      over2 == over1 \/ insufficient
      res2 == IF ~over1 /\ insufficient THEN "draw" ELSE res1
      fifty == ~over2 /\ moved.halfMoveClock >= 100
  IN [notation |-> finalNotation, inCheck |-> inCheck,
      isGameOver |-> over2 \/ fifty, result |-> IF fifty THEN "draw" ELSE res2]

(* terminalFlags that names the mated side as the winner *)
terminalFlags_WinnerSwapped(moved, notation) ==
  outcome(moved, notation, Len(getAllLegalMoves(moved)) = 0,
          isInCheck(moved.board, moved.turn), isInsufficientMaterial(moved.board),
          IF moved.turn = "w" THEN "white" ELSE "black")

(* Check, checkmate, stalemate and the draw rules, on the position after the *)
(* move with the turn switched; notation is the move's notation so far       *)
terminalFlags(moved, notation) ==
  outcome(moved, notation, Len(getAllLegalMoves(moved)) = 0,
          isInCheck(moved.board, moved.turn), isInsufficientMaterial(moved.board),
          IF moved.turn = "w" THEN "black" ELSE "white")

(* movedPosition that counts a full move after White's move, not Black's *)
movedPosition_CountsWhite(state, move, piece, captured) ==
  [state EXCEPT
     !.history = Append(state.history, cloneState(state)),
     !.board = promote(movePiece(state, move), move),
     !.castling = updateCastling(state.castling, piece, move),
     !.enPassant = enPassantTarget(state, move),
     !.halfMoveClock = nextHalfMoveClock(state, move, piece, captured),
     !.fullMoveNumber = IF state.turn = "w" THEN @ + 1 ELSE @,
     !.turn = IF state.turn = "w" THEN "b" ELSE "w",
     !.capturedWhite = recordCaptures(state, move, captured).white,
     !.capturedBlack = recordCaptures(state, move, captured).black]

(* The position after the move, before the tests for the end of the game *)
movedPosition(state, move, piece, captured) ==
  [state EXCEPT
     !.history = Append(state.history, cloneState(state)),
     !.board = promote(movePiece(state, move), move),
     !.castling = updateCastling(state.castling, piece, move),
     !.enPassant = enPassantTarget(state, move),
     !.halfMoveClock = nextHalfMoveClock(state, move, piece, captured),
     !.fullMoveNumber = IF state.turn = "b" THEN @ + 1 ELSE @,
     !.turn = IF state.turn = "w" THEN "b" ELSE "w",
     !.capturedWhite = recordCaptures(state, move, captured).white,
     !.capturedBlack = recordCaptures(state, move, captured).black]

(* The position with the flags set and the notation pushed, and the object *)
(* makeMove returns                                                        *)
finishMove(moved, flags, captured) ==
  [state |-> [moved EXCEPT !.isGameOver = flags.isGameOver, !.result = flags.result,
                           !.moveList = Append(@, flags.notation)],
   ret |-> [notation |-> flags.notation, captured |-> captured,
            inCheck |-> flags.inCheck, isGameOver |-> flags.isGameOver,
            result |-> flags.result]]

(* makeMove after the move is applied: the end-of-game tests *)
flagMove(moved, notation, captured) ==
  finishMove(moved, terminalFlags(moved, notation), captured)

(* makeMove: the position after the move and the object it returns *)
makeMove(state, move) ==
  flagMove(movedPosition(state, move, state.board[move.fromR][move.fromC],
                         state.board[move.toR][move.toC]),
           buildNotation(state, move, state.board[move.fromR][move.fromC],
                         state.board[move.toR][move.toC]),
           state.board[move.toR][move.toC])

(* undoMove: the position afterwards and the boolean it returns *)
(* undoMove that restores the snapshot and leaves it on the stack *)
undoMove_KeepsHistory(state) ==
  IF Len(state.history) = 0 THEN [state |-> state, ret |-> FALSE]
  ELSE LET prev == state.history[Len(state.history)]
       IN [state |-> [state EXCEPT !.board = prev.board, !.turn = prev.turn,
                                   !.castling = prev.castling,
                                   !.enPassant = prev.enPassant,
                                   !.halfMoveClock = prev.halfMoveClock,
                                   !.fullMoveNumber = prev.fullMoveNumber,
                                   !.capturedWhite = prev.capturedWhite,
                                   !.capturedBlack = prev.capturedBlack,
                                   !.moveList = prev.moveList,
                                   !.isGameOver = FALSE, !.result = NullResult],
           ret |-> TRUE]

(* undoMove without the test for an empty stack *)
undoMove_NoGuard(state) ==
  LET n == Len(state.history)
      prev == IF n = 0 THEN cloneState(state) ELSE state.history[n]
  IN [state |-> [board |-> prev.board,
                 turn |-> prev.turn,
                 castling |-> prev.castling,
                 enPassant |-> prev.enPassant,
                 halfMoveClock |-> prev.halfMoveClock,
                 fullMoveNumber |-> prev.fullMoveNumber,
                 history |-> SubSeq(state.history, 1, n - 1),
                 capturedWhite |-> prev.capturedWhite,
                 capturedBlack |-> prev.capturedBlack,
                 moveList |-> prev.moveList,
                 isGameOver |-> FALSE,
                 result |-> NullResult],
      ret |-> TRUE]

undoMove(state) ==
  IF Len(state.history) = 0 THEN [state |-> state, ret |-> FALSE]
  ELSE LET prev == state.history[Len(state.history)]
       IN [state |-> [board |-> prev.board,
                      turn |-> prev.turn,
                      castling |-> prev.castling,
                      enPassant |-> prev.enPassant,
                      halfMoveClock |-> prev.halfMoveClock,
                      fullMoveNumber |-> prev.fullMoveNumber,
                      history |-> SubSeq(state.history, 1, Len(state.history) - 1),
                      capturedWhite |-> prev.capturedWhite,
                      capturedBlack |-> prev.capturedBlack,
                      moveList |-> prev.moveList,
                      isGameOver |-> FALSE,
                      result |-> NullResult],
           ret |-> TRUE]

-----------------------------------------------------------------------------
(* The search agent: evaluation *)

PST_PAWN ==
  <<<<  0,   0,   0,   0,   0,   0,   0,   0>>,
    << 50,  50,  50,  50,  50,  50,  50,  50>>,
    << 10,  10,  20,  30,  30,  20,  10,  10>>,
    <<  5,   5,  10,  27,  27,  10,   5,   5>>,
    <<  0,   0,   0,  25,  25,   0,   0,   0>>,
    <<  5,  -5, -10,   0,   0, -10,  -5,   5>>,
    <<  5,  10,  10, -25, -25,  10,  10,   5>>,
    <<  0,   0,   0,   0,   0,   0,   0,   0>>>>

PST_KNIGHT ==
  <<<<-50, -40, -30, -30, -30, -30, -40, -50>>,
    <<-40, -20,   0,   0,   0,   0, -20, -40>>,
    <<-30,   0,  10,  15,  15,  10,   0, -30>>,
    <<-30,   5,  15,  20,  20,  15,   5, -30>>,
    <<-30,   0,  15,  20,  20,  15,   0, -30>>,
    <<-30,   5,  10,  15,  15,  10,   5, -30>>,
    <<-40, -20,   0,   5,   5,   0, -20, -40>>,
    <<-50, -40, -30, -30, -30, -30, -40, -50>>>>

PST_BISHOP ==
  <<<<-20, -10, -10, -10, -10, -10, -10, -20>>,
    <<-10,   0,   0,   0,   0,   0,   0, -10>>,
    <<-10,   0,  10,  10,  10,  10,   0, -10>>,
    <<-10,   5,   5,  10,  10,   5,   5, -10>>,
    <<-10,   0,   5,  10,  10,   5,   0, -10>>,
    <<-10,  10,  10,  10,  10,  10,  10, -10>>,
    <<-10,   5,   0,   0,   0,   0,   5, -10>>,
    <<-20, -10, -10, -10, -10, -10, -10, -20>>>>

PST_ROOK ==
  <<<<  0,   0,   0,   0,   0,   0,   0,   0>>,
    <<  5,  10,  10,  10,  10,  10,  10,   5>>,
    << -5,   0,   0,   0,   0,   0,   0,  -5>>,
    << -5,   0,   0,   0,   0,   0,   0,  -5>>,
    << -5,   0,   0,   0,   0,   0,   0,  -5>>,
    << -5,   0,   0,   0,   0,   0,   0,  -5>>,
    << -5,   0,   0,   0,   0,   0,   0,  -5>>,
    <<  0,   0,   0,   5,   5,   0,   0,   0>>>>

PST_QUEEN ==
  <<<<-20, -10, -10,  -5,  -5, -10, -10, -20>>,
    <<-10,   0,   0,   0,   0,   0,   0, -10>>,
    <<-10,   0,   5,   5,   5,   5,   0, -10>>,
    << -5,   0,   5,   5,   5,   5,   0,  -5>>,
    <<  0,   0,   5,   5,   5,   5,   0,  -5>>,
    <<-10,   5,   5,   5,   5,   5,   0, -10>>,
    <<-10,   0,   5,   0,   0,   0,   0, -10>>,
    <<-20, -10, -10,  -5,  -5, -10, -10, -20>>>>

PST_KING_MID ==
  <<<<-30, -40, -40, -50, -50, -40, -40, -30>>,
    <<-30, -40, -40, -50, -50, -40, -40, -30>>,
    <<-30, -40, -40, -50, -50, -40, -40, -30>>,
    <<-30, -40, -40, -50, -50, -40, -40, -30>>,
    <<-20, -30, -30, -40, -40, -30, -30, -20>>,
    <<-10, -20, -20, -20, -20, -20, -20, -10>>,
    << 20,  20,   0,   0,   0,   0,  20,  20>>,
    << 20,  30,  10,   0,   0,  10,  30,  20>>>>

PST_KING_END ==
  <<<<-50, -40, -30, -20, -20, -30, -40, -50>>,
    <<-30, -20, -10,   0,   0, -10, -20, -30>>,
    <<-30, -10,  20,  30,  30,  20, -10, -30>>,
    <<-30, -10,  30,  40,  40,  30, -10, -30>>,
    <<-30, -10,  30,  40,  40,  30, -10, -30>>,
    <<-30, -10,  20,  30,  30,  20, -10, -30>>,
    <<-30, -30,   0,   0,   0,   0, -30, -30>>,
    <<-50, -30, -30, -30, -30, -30, -30, -50>>>>

PIECE_VALUES(p) ==
  CASE p \in {WP, BP} -> 100
    [] p \in {WN, BN} -> 320
    [] p \in {WB, BB} -> 330
    [] p \in {WR, BR} -> 500
    [] p \in {WQ, BQ} -> 900
    [] p \in {WK, BK} -> 20000
    [] OTHER -> 0

getPST(piece, endgame) ==
  CASE piece \in {WP, BP} -> PST_PAWN
    [] piece \in {WN, BN} -> PST_KNIGHT
    [] piece \in {WB, BB} -> PST_BISHOP
    [] piece \in {WR, BR} -> PST_ROOK
    [] piece \in {WQ, BQ} -> PST_QUEEN
    [] OTHER -> IF endgame THEN PST_KING_END ELSE PST_KING_MID

(* terms[lo] + ... + terms[hi] *)
RECURSIVE SumRange(_, _, _)
SumRange(terms, lo, hi) ==
  IF lo > hi THEN 0
  ELSE IF lo = hi THEN terms[lo]
  ELSE SumRange(terms, lo, (lo + hi) \div 2) + SumRange(terms, (lo + hi) \div 2 + 1, hi)

SumTo(terms, n) == SumRange(terms, 1, n)

(* The sum of term(r, c) over the 64 squares, and of term(c) over the 8 files *)
SumSquares(term(_, _)) == SumTo([i \in 1..64 |-> term((i - 1) \div 8, (i - 1) % 8)], 64)
SumFiles(term(_)) == SumTo([i \in 1..8 |-> term(i - 1)], 8)

isEndgame(state) ==
  LET board == state.board
      whiteQueens == CountOf(board, WQ)
      blackQueens == CountOf(board, BQ)
      whiteRooks == CountOf(board, WR)
      blackRooks == CountOf(board, BR)
      whiteMinor == CountOf(board, WN) + CountOf(board, WB)
      blackMinor == CountOf(board, BN) + CountOf(board, BB)
  IN IF whiteQueens = 0 /\ blackQueens = 0 THEN TRUE
     ELSE IF whiteQueens <= 1 /\ blackQueens <= 1 /\ whiteRooks = 0 /\ blackRooks = 0
             /\ whiteMinor <= 1 /\ blackMinor <= 1 THEN TRUE
     ELSE FALSE

(* The score of the board without the mobility term *)
staticScore(state) ==
  LET board == state.board
      endgame == isEndgame(state)
      whitePawnFiles == [c \in 0..7 |-> Cardinality({r \in 0..7 : board[r][c] = WP})]
      blackPawnFiles == [c \in 0..7 |-> Cardinality({r \in 0..7 : board[r][c] = BP})]
      (* Material + PST *)
      material(r, c) ==
        LET p == board[r][c]
            pst == getPST(p, endgame)
        IN IF p = EMPTY THEN 0
           ELSE IF isWhite(p) THEN PIECE_VALUES(p) + pst[r + 1][c + 1]
           ELSE 0 - (PIECE_VALUES(p) + pst[(7 - r) + 1][c + 1])
      (* Bishop pair bonus *)
      bishopPair == (IF CountOf(board, WB) >= 2 THEN 50 ELSE 0)
                    - (IF CountOf(board, BB) >= 2 THEN 50 ELSE 0)
      (* Doubled and isolated pawns *)
      pawnStructure(c) ==
        LET hasWhiteLeft == c > 0 /\ whitePawnFiles[c - 1] > 0
            hasWhiteRight == c < 7 /\ whitePawnFiles[c + 1] > 0
            hasBlackLeft == c > 0 /\ blackPawnFiles[c - 1] > 0
            hasBlackRight == c < 7 /\ blackPawnFiles[c + 1] > 0
        IN (IF whitePawnFiles[c] > 1 THEN 0 - 15 * (whitePawnFiles[c] - 1) ELSE 0)
           + (IF blackPawnFiles[c] > 1 THEN 15 * (blackPawnFiles[c] - 1) ELSE 0)
           + (IF whitePawnFiles[c] > 0 /\ ~hasWhiteLeft /\ ~hasWhiteRight THEN -20 ELSE 0)
           + (IF blackPawnFiles[c] > 0 /\ ~hasBlackLeft /\ ~hasBlackRight THEN 20 ELSE 0)
      (* Passed pawns *)
      adjacent(c) == {bc \in 0..7 : bc >= c - 1 /\ bc <= c + 1}
      passedPawns(c) ==
        LET wr == CHOOSE r \in 0..7 : board[r][c] = WP /\ \A q \in 0..(r - 1) : board[q][c] # WP
            br == CHOOSE r \in 0..7 : board[r][c] = BP /\ \A q \in (r + 1)..7 : board[q][c] # BP
        IN (IF whitePawnFiles[c] > 0
               /\ \A q \in 0..(wr - 1) : \A bc \in adjacent(c) : board[q][bc] # BP
            THEN (7 - wr) * 15 ELSE 0)
           - (IF blackPawnFiles[c] > 0
                 /\ \A q \in (br + 1)..7 : \A bc \in adjacent(c) : board[q][bc] # WP
              THEN br * 15 ELSE 0)
      (* Rook on open/semi-open file *)
      rookFile(r, c) ==
        LET p == board[r][c]
        IN IF p = WR
           THEN (IF whitePawnFiles[c] = 0 /\ blackPawnFiles[c] = 0 THEN 25
                 ELSE IF whitePawnFiles[c] = 0 THEN 15 ELSE 0)
           ELSE IF p = BR
           THEN (IF whitePawnFiles[c] = 0 /\ blackPawnFiles[c] = 0 THEN -25
                 ELSE IF blackPawnFiles[c] = 0 THEN -15 ELSE 0)
           ELSE 0
      (* King safety *)
      wKing == findKing(board, "w")
      bKing == findKing(board, "b")
      whiteShield(dc) ==
        LET sc == wKing.col + dc
            shieldRow == wKing.row - 1
        IN IF sc >= 0 /\ sc < 8
           THEN (IF shieldRow >= 0 /\ board[shieldRow][sc] = WP THEN 15 ELSE -15)
           ELSE 0
      blackShield(dc) ==
        LET sc == bKing.col + dc
            shieldRow == bKing.row + 1
        IN IF sc >= 0 /\ sc < 8
           THEN (IF shieldRow < 8 /\ board[shieldRow][sc] = BP THEN -15 ELSE 15)
           ELSE 0
      kingSafety ==
        IF endgame THEN 0
        ELSE (IF wKing # NullSquare
              THEN whiteShield(-1) + whiteShield(0) + whiteShield(1) ELSE 0)
             + (IF bKing # NullSquare
                THEN blackShield(-1) + blackShield(0) + blackShield(1) ELSE 0)
  IN SumSquares(material) + bishopPair + SumFiles(pawnStructure) + SumFiles(passedPawns)
     + SumSquares(rookFile) + kingSafety

(* evaluate without the assignment state.turn = savedTurn *)
evaluate_NoRestore(state) ==
  LET asWhite == [state EXCEPT !.turn = "w"]
      whiteMoves == Len(getAllLegalMoves(asWhite))
      asBlack == [asWhite EXCEPT !.turn = "b"]
      blackMoves == Len(getAllLegalMoves(asBlack))
  IN [state |-> asBlack,
      val |-> staticScore(state) + (whiteMoves - blackMoves) * 5]

(* evaluate: the score, and the position it leaves after the two swaps of turn *)
evaluate(state) ==
  LET savedTurn == state.turn
      asWhite == [state EXCEPT !.turn = "w"]
      whiteMoves == Len(getAllLegalMoves(asWhite))
      asBlack == [asWhite EXCEPT !.turn = "b"]
      blackMoves == Len(getAllLegalMoves(asBlack))
  IN [state |-> [asBlack EXCEPT !.turn = savedTurn],
      val |-> staticScore(state) + (whiteMoves - blackMoves) * 5]

-----------------------------------------------------------------------------
(* The search agent: move ordering and killer moves *)

(* The depth argument of orderMoves when it is undefined *)
Undefined == -1

(* The object killerMoves after clearKillers: no ply has a list yet *)
NoKillers == [d \in 0..6 |-> <<>>]

storeKiller(killers, depth, move) ==
  IF Len(killers[depth]) < 2
  THEN [killers EXCEPT ![depth] = Append(@, move)]
  ELSE [killers EXCEPT ![depth] = <<move, @[1]>>]

(* isKillerMove that looks the move up in the lists of all plies *)
isKillerMove_AnyPly(killers, depth, move) ==
  \E d \in DOMAIN killers :
    \E i \in 1..Len(killers[d]) :
      LET k == killers[d][i]
      IN k.fromR = move.fromR /\ k.fromC = move.fromC /\ k.toR = move.toR /\ k.toC = move.toC

isKillerMove(killers, depth, move) ==
  \E i \in 1..Len(killers[depth]) :
    LET k == killers[depth][i]
    IN k.fromR = move.fromR /\ k.fromC = move.fromC /\ k.toR = move.toR /\ k.toC = move.toC

Abs(x) == IF x < 0 THEN 0 - x ELSE x

(* The score the comparator of orderMoves gives a move *)
moveScore(a, state, depth, killers) ==
  LET victim == state.board[a.toR][a.toC]
      attacker == state.board[a.fromR][a.fromC]
      (* |toR - 3.5| + |toC - 3.5| is a whole number *)
      centerDist == (Abs(2 * a.toR - 7) + Abs(2 * a.toC - 7)) \div 2
  IN (IF a.capture THEN 10000 + PIECE_VALUES(victim) * 10 - PIECE_VALUES(attacker) ELSE 0)
     + (IF a.promotion THEN 9000 ELSE 0)
     + (IF depth # Undefined /\ isKillerMove(killers, depth, a) THEN 5000 ELSE 0)
     + (IF a.castleKing \/ a.castleQueen THEN 3000 ELSE 0)
     + (7 - centerDist) * 5

(* moves.sort with the comparator scoreB - scoreA: Array.prototype.sort is *)
(* stable, so higher scores come first and ties keep their order           *)
orderMoves(moves, state, depth, killers) ==
  LET n == Len(moves)
      scores == [i \in 1..n |-> moveScore(moves[i], state, depth, killers)]
      rank(i) == 1 + Cardinality({j \in 1..n : scores[j] > scores[i]
                                               \/ (scores[j] = scores[i] /\ j < i)})
  IN [k \in 1..n |-> moves[CHOOSE i \in 1..n : rank(i) = k]]

-----------------------------------------------------------------------------
(* The search agent: quiescence and minimax.  The search changes the       *)
(* position in place, so every function returns the position it leaves     *)
(* next to its value; minimax also returns the killer store.               *)

(* Stands for Infinity: larger than every score and every mate value *)
Infinity == 1000000

Max(a, b) == IF a >= b THEN a ELSE b
Min(a, b) == IF a <= b THEN a ELSE b

(* The promotion piece left as the move generator made it *)
defaultPromotion_None(move, turn) == move

(* move.promotionPiece = queen of the side to move, for a promotion without one *)
defaultPromotion(move, turn) ==
  IF move.promotion /\ move.promotionPiece = 0
  THEN [move EXCEPT !.promotionPiece = IF turn = "w" THEN WQ ELSE BQ]
  ELSE move

RECURSIVE quiescence(_, _, _, _, _)
RECURSIVE quiescenceRange(_, _, _, _, _, _)

(* What is observed of a call that made no move: the length of history it *)
(* saw (peak), and that no call in it returned with another length of     *)
(* history than it was entered with (paired)                              *)
observed(r, state) ==
  [val |-> r.val, state |-> r.state, peak |-> Len(state.history), paired |-> TRUE]

(* The frame of a call entered on state that is about to return r *)
frame(state, r) ==
  [r EXCEPT !.paired = @ /\ Len(r.state.history) = Len(state.history)]

(* The variables of a for loop over moves in quiescence and minimax: the    *)
(* position, the killer store, the window, maxEval or minEval, and whether  *)
(* the loop has left with break; peak and paired as observed so far         *)
loopVars(state, killers, alpha, beta, best) ==
  [state |-> state, killers |-> killers, alpha |-> alpha, beta |-> beta, best |-> best,
   cut |-> FALSE, peak |-> Len(state.history), paired |-> TRUE]

(* What a loop returns when it is over *)
loopResult(loop) ==
  [val |-> loop.best, state |-> loop.state, killers |-> loop.killers,
   peak |-> loop.peak, paired |-> loop.paired]

(* The body of the for loop of quiescence after the recursive call returned *)
(* child: undo, then the update of the best value and of the window        *)
quiescenceAfter(loop, maximizing, child) ==
  [state |-> undoMove(child.state).state,
   killers |-> loop.killers,
   alpha |-> IF maximizing THEN Max(loop.alpha, child.val) ELSE loop.alpha,
   beta |-> IF maximizing THEN loop.beta ELSE Min(loop.beta, child.val),
   best |-> IF maximizing THEN Max(loop.best, child.val) ELSE Min(loop.best, child.val),
   cut |-> IF maximizing THEN loop.beta <= Max(loop.alpha, child.val)
           ELSE Min(loop.beta, child.val) <= loop.alpha,
   peak |-> Max(loop.peak, child.peak),
   paired |-> loop.paired /\ child.paired]

(* One pass of the for loop of quiescence, on the move ordered[i] *)
quiescencePass(loop, ordered, i, maximizing, maxQDepth) ==
  IF loop.cut THEN loop
  ELSE quiescenceAfter(loop, maximizing,
         quiescence(makeMove(loop.state,
                             defaultPromotion(ordered[i], loop.state.turn)).state,
                    loop.alpha, loop.beta, ~maximizing, maxQDepth - 1))

(* The passes on ordered[lo] .. ordered[hi] after the passes before them *)
(* left the loop variables in loop: none if the loop has left with break *)
quiescenceRest(loop, ordered, lo, hi, maximizing, maxQDepth) ==
  IF loop.cut THEN loop
  ELSE quiescenceRange(loop, ordered, lo, hi, maximizing, maxQDepth)

(* The passes of the for loop of quiescence on ordered[lo] .. ordered[hi] *)
quiescenceRange(loop, ordered, lo, hi, maximizing, maxQDepth) ==
  IF lo = hi THEN quiescencePass(loop, ordered, lo, maximizing, maxQDepth)
  ELSE quiescenceRest(quiescenceRange(loop, ordered, lo, (lo + hi) \div 2, maximizing,
                                      maxQDepth),
                      ordered, (lo + hi) \div 2 + 1, hi, maximizing, maxQDepth)

(* allMoves.filter(m => m.capture || m.promotion) *)
captureMoves(allMoves) == SelectSeq(allMoves, LAMBDA m : m.capture \/ m.promotion)

(* quiescence once the capture moves are generated *)
quiescenceCaptures(state, captures, standPat, alpha, beta, maximizing, maxQDepth) ==
  IF Len(captures) = 0 THEN observed([val |-> standPat, state |-> state], state)
  ELSE loopResult(
         quiescenceRange(
           loopVars(state, NoKillers,
                    IF maximizing /\ standPat > alpha THEN standPat ELSE alpha,
                    IF ~maximizing /\ standPat < beta THEN standPat ELSE beta,
                    standPat),
           orderMoves(captures, state, Undefined, NoKillers), 1, Len(captures),
           maximizing, maxQDepth))

(* quiescence once evaluate has returned ev *)
quiescenceStandPat(ev, alpha, beta, maximizing, maxQDepth) ==
  IF maxQDepth <= 0 THEN observed(ev, ev.state)
  ELSE IF maximizing /\ ev.val >= beta
  THEN observed([val |-> beta, state |-> ev.state], ev.state)
  ELSE IF ~maximizing /\ ev.val <= alpha
  THEN observed([val |-> alpha, state |-> ev.state], ev.state)
  ELSE quiescenceCaptures(ev.state, captureMoves(getAllLegalMoves(ev.state)),
                          ev.val, alpha, beta, maximizing, maxQDepth)

quiescence(state, alpha, beta, maximizing, maxQDepth) ==
  frame(state, quiescenceStandPat(evaluate(state), alpha, beta, maximizing, maxQDepth))

RECURSIVE minimax(_, _, _, _, _, _, _, _)
RECURSIVE minimaxBody(_, _, _, _, _, _, _, _)
RECURSIVE minimaxRange(_, _, _, _, _, _, _, _)

(* minimaxAfter without the undoMove after the recursive call *)
minimaxAfter_NoUndo(loop, move, depth, maximizing, maxSearchDepth, child) ==
  [state |-> child.state,
   killers |-> IF (IF maximizing THEN loop.beta <= Max(loop.alpha, child.val)
                   ELSE Min(loop.beta, child.val) <= loop.alpha) /\ ~move.capture
               THEN storeKiller(child.killers, maxSearchDepth - depth, move)
               ELSE child.killers,
   alpha |-> IF maximizing THEN Max(loop.alpha, child.val) ELSE loop.alpha,
   beta |-> IF maximizing THEN loop.beta ELSE Min(loop.beta, child.val),
   best |-> IF maximizing THEN Max(loop.best, child.val) ELSE Min(loop.best, child.val),
   cut |-> IF maximizing THEN loop.beta <= Max(loop.alpha, child.val)
           ELSE Min(loop.beta, child.val) <= loop.alpha,
   peak |-> Max(loop.peak, child.peak),
   paired |-> loop.paired /\ child.paired]

(* The body of the for loop of minimax after the recursive call on move *)
(* returned child: undo, the best value, the window, the killer move    *)
minimaxAfter(loop, move, depth, maximizing, maxSearchDepth, child) ==
  [state |-> undoMove(child.state).state,
   killers |-> IF (IF maximizing THEN loop.beta <= Max(loop.alpha, child.val)
                   ELSE Min(loop.beta, child.val) <= loop.alpha) /\ ~move.capture
               THEN storeKiller(child.killers, maxSearchDepth - depth, move)
               ELSE child.killers,
   alpha |-> IF maximizing THEN Max(loop.alpha, child.val) ELSE loop.alpha,
   beta |-> IF maximizing THEN loop.beta ELSE Min(loop.beta, child.val),
   best |-> IF maximizing THEN Max(loop.best, child.val) ELSE Min(loop.best, child.val),
   cut |-> IF maximizing THEN loop.beta <= Max(loop.alpha, child.val)
           ELSE Min(loop.beta, child.val) <= loop.alpha,
   peak |-> Max(loop.peak, child.peak),
   paired |-> loop.paired /\ child.paired]

(* One pass of the for loop of minimax, on the move moves[i] *)
minimaxPass(loop, moves, i, depth, maximizing, useQuiescence, maxSearchDepth) ==
  IF loop.cut THEN loop
  ELSE minimaxAfter(loop, defaultPromotion(moves[i], loop.state.turn), depth, maximizing,
         maxSearchDepth,
         minimax(makeMove(loop.state, defaultPromotion(moves[i], loop.state.turn)).state,
                 loop.killers, depth - 1, loop.alpha, loop.beta, ~maximizing,
                 useQuiescence, maxSearchDepth))

(* The passes on moves[lo] .. moves[hi] after the passes before them left *)
(* the loop variables in loop: none if the loop has left with break      *)
minimaxRest(loop, moves, lo, hi, depth, maximizing, useQuiescence, maxSearchDepth) ==
  IF loop.cut THEN loop
  ELSE minimaxRange(loop, moves, lo, hi, depth, maximizing, useQuiescence, maxSearchDepth)

(* The passes of the for loop of minimax on moves[lo] .. moves[hi] *)
minimaxRange(loop, moves, lo, hi, depth, maximizing, useQuiescence, maxSearchDepth) ==
  IF lo = hi
  THEN minimaxPass(loop, moves, lo, depth, maximizing, useQuiescence, maxSearchDepth)
  ELSE minimaxRest(minimaxRange(loop, moves, lo, (lo + hi) \div 2, depth, maximizing,
                                useQuiescence, maxSearchDepth),
                   moves, (lo + hi) \div 2 + 1, hi, depth, maximizing, useQuiescence,
                   maxSearchDepth)

(* minimax once the ordered legal moves are generated *)
minimaxMoves(state, killers, moves, depth, alpha, beta, maximizing, useQuiescence, maxSearchDepth) ==
  IF Len(moves) = 0
  THEN [val |-> IF isInCheck(state.board, state.turn)
                THEN (IF maximizing THEN -99999 + (maxSearchDepth - depth)
                      ELSE 99999 - (maxSearchDepth - depth))
                ELSE 0,
        state |-> state, killers |-> killers, peak |-> Len(state.history),
        paired |-> TRUE]
  ELSE loopResult(
         minimaxRange(loopVars(state, killers, alpha, beta,
                               IF maximizing THEN 0 - Infinity ELSE Infinity),
                      moves, 1, Len(moves), depth, maximizing, useQuiescence,
                      maxSearchDepth))

(* What minimax returns at a leaf: the value and the position that evaluate *)
(* or quiescence returned, the killer store as it was                       *)
leafValue(r, killers) ==
  [val |-> r.val, state |-> r.state, killers |-> killers, peak |-> r.peak,
   paired |-> r.paired]

(* minimax between its entry and its return *)
minimaxBody(state, killers, depth, alpha, beta, maximizing, useQuiescence, maxSearchDepth) ==
  IF depth = 0
  THEN (IF useQuiescence
        THEN leafValue(quiescence(state, alpha, beta, maximizing, 6), killers)
        ELSE leafValue(observed(evaluate(state), state), killers))
  ELSE IF state.isGameOver THEN leafValue(observed(evaluate(state), state), killers)
  ELSE minimaxMoves(state, killers,
                    orderMoves(getAllLegalMoves(state), state, maxSearchDepth - depth,
                               killers),
                    depth, alpha, beta, maximizing, useQuiescence, maxSearchDepth)

minimax(state, killers, depth, alpha, beta, maximizing, useQuiescence, maxSearchDepth) ==
  frame(state, minimaxBody(state, killers, depth, alpha, beta, maximizing, useQuiescence,
                           maxSearchDepth))

-----------------------------------------------------------------------------
(* The search agent: move selection.  search holds the local variables of   *)
(* the running getBeginnerMove, getMediumMove or getProMove.                *)

(* The function getBotMove dispatches to *)
profileOf(difficulty) ==
  CASE difficulty = "beginner" -> "beginner"
    [] difficulty = "medium" -> "medium"
    [] difficulty = "pro" -> "pro"
    [] OTHER -> "medium"

(* searchDepth with a beginner that searches three plies *)
searchDepth_BeginnerThree(profile) ==
  CASE profile = "beginner" -> 3
    [] profile = "medium" -> 4
    [] OTHER -> 6

searchDepth(profile) ==
  CASE profile = "beginner" -> 2
    [] profile = "medium" -> 4
    [] OTHER -> 6

(* JavaScript null for a move *)
NoMove == addMove(-1, -1, -1, -1, {})

(* The clock of either side at the start of a game, in ticks of the        *)
(* one-second interval timer: 600 in the page                              *)
StartTime == 2

(* The globals of the page as it is loaded, before a game is started: no   *)
(* game mode, nothing selected, no timer, no bot at work, no promotion     *)
(* dialog; callbacks counts the setTimeout callbacks on makeBotMove that   *)
(* have not run yet, games the games that may still be started             *)
NoUI ==
  [screen |-> "setup", gameMode |-> "null", selectedSquare |-> NullSquare,
   legalMovesForSelected |-> <<>>, whiteTime |-> StartTime, blackTime |-> StartTime,
   timerInterval |-> FALSE, isBotThinking |-> FALSE, pendingPromotion |-> NoMove,
   callbacks |-> 0, games |-> 0]

IdleSearch ==
  [pc |-> "idle", profile |-> "none", maximizing |-> FALSE, ordered |-> <<>>, i |-> 0,
   bestMove |-> NoMove, bestEval |-> 0,
   alpha |-> 0 - Infinity, beta |-> Infinity, moveScores |-> <<>>,
   entry |-> createGameState, entryStore |-> NoKillers, peak |-> 0, paired |-> TRUE]

(* The sort of moveScores in getProMove, best shallow score first, stable *)
sortMoveScores(moveScores, maximizing) ==
  LET n == Len(moveScores)
      before(j, i) == IF maximizing THEN moveScores[j].eval > moveScores[i].eval
                      ELSE moveScores[j].eval < moveScores[i].eval
      rank(i) == 1 + Cardinality({j \in 1..n : before(j, i)
                        \/ (moveScores[j].eval = moveScores[i].eval /\ j < i)})
  IN [k \in 1..n |-> moveScores[CHOOSE i \in 1..n : rank(i) = k].move]

-----------------------------------------------------------------------------
(* Games played from createGameState.  A move of a line is <<fromR, fromC,  *)
(* toR, toC>>: the user selects the piece and clicks the target square.     *)

(* 1.f3 e5 2.g4, Black to move can mate with Qh4 *)
FoolsMateLine ==
  <<<<6, 5, 5, 5>>, <<1, 4, 3, 4>>, <<6, 6, 4, 6>>>>

(* 1.e4 a6 2.e5 d5, White to move can capture en passant on d6 *)
EnPassantLine ==
  <<<<6, 4, 4, 4>>, <<1, 0, 2, 0>>, <<4, 4, 3, 4>>, <<1, 3, 3, 3>>>>

(* 1.e4 e5 2.Nf3 Nf6 3.Bc4 Bc5 4.d3 d6 5.Nc3 Nc6 6.Be3 Be6 7.Qd2 Qd7: either *)
(* side can castle to either wing                                          *)
BothCastleLine ==
  <<<<6, 4, 4, 4>>, <<1, 4, 3, 4>>, <<7, 6, 5, 5>>, <<0, 6, 2, 5>>, <<7, 5, 4, 2>>,
    <<0, 5, 3, 2>>, <<6, 3, 5, 3>>, <<1, 3, 2, 3>>, <<7, 1, 5, 2>>, <<0, 1, 2, 2>>,
    <<7, 2, 5, 4>>, <<0, 2, 2, 4>>, <<7, 3, 6, 3>>, <<0, 3, 1, 3>>>>

(* 1.e4 e5 2.Nf3 Nc6 3.Bc4 Bc5, White to move can castle kingside *)
CastleLine ==
  <<<<6, 4, 4, 4>>, <<1, 4, 3, 4>>, <<7, 6, 5, 5>>, <<0, 1, 2, 2>>, <<7, 5, 4, 2>>,
    <<0, 5, 3, 2>>>>

(* 1.e3 b6 2.g3 Ba6 3.Bg2 Nc6 4.Nf3 e6, f1 is attacked by the bishop on a6 *)
CastleAttackedLine ==
  <<<<6, 4, 5, 4>>, <<1, 1, 2, 1>>, <<6, 6, 5, 6>>, <<0, 2, 2, 0>>, <<7, 5, 6, 6>>,
    <<0, 1, 2, 2>>, <<7, 6, 5, 5>>, <<1, 4, 2, 4>>>>

(* 1.b3 g6 2.Bb2 a6, White to move can capture the rook on h8 *)
RookCaptureLine ==
  <<<<6, 1, 5, 1>>, <<1, 6, 2, 6>>, <<7, 2, 6, 1>>, <<1, 0, 2, 0>>>>

(* 1.a4 b5 2.axb5 a6 3.bxa6 Bb7 4.axb7 Nc6, White to move can promote on a8, b8 *)
PromotionLine ==
  <<<<6, 0, 4, 0>>, <<1, 1, 3, 1>>, <<4, 0, 3, 1>>, <<1, 0, 2, 0>>, <<3, 1, 2, 0>>,
    <<0, 2, 1, 1>>, <<2, 0, 1, 1>>, <<0, 1, 2, 2>>>>

(* Sam Loyd's game up to 9...Kg6; 10.Qe6 is stalemate *)
StalemateLine ==
  <<<<6, 4, 5, 4>>, <<1, 0, 3, 0>>, <<7, 3, 3, 7>>, <<0, 0, 2, 0>>, <<3, 7, 3, 0>>,
    <<1, 7, 3, 7>>, <<6, 7, 4, 7>>, <<2, 0, 2, 7>>, <<3, 0, 1, 2>>, <<1, 5, 2, 5>>,
    <<1, 2, 1, 3>>, <<0, 4, 1, 5>>, <<1, 3, 1, 1>>, <<0, 3, 5, 3>>, <<1, 1, 0, 1>>,
    <<5, 3, 1, 7>>, <<0, 1, 0, 2>>, <<1, 5, 2, 6>>>>

(* 1.e4 d5 2.Bb5+, Black to move is in check *)
CheckLine ==
  <<<<6, 4, 4, 4>>, <<1, 3, 3, 3>>, <<7, 5, 3, 1>>>>

(* Knights out and back: Nf3 Nf6 Ng1 Ng8, no pawn move and no capture *)
KnightCycle == <<<<7, 6, 5, 5>>, <<0, 6, 2, 5>>, <<5, 5, 7, 6>>, <<2, 5, 0, 6>>>>

Repeat(cycle, n) == [i \in 1..(n * Len(cycle)) |-> cycle[((i - 1) % Len(cycle)) + 1]]

(* 100 plies without pawn move or capture: the fifty-move draw is flagged *)
FiftyMoveLine == Repeat(KnightCycle, 25)

(* One ply before it *)
FiftyMoveEveLine == SubSeq(FiftyMoveLine, 1, 99)

(* A game of captures down to the two kings: the draw by insufficient material is flagged *)
BareKingsLine ==
  <<<<6, 2, 5, 2>>, <<1, 1, 3, 1>>, <<6, 4, 5, 4>>, <<1, 7, 2, 7>>, <<7, 5, 3, 1>>,
    <<1, 4, 3, 4>>, <<3, 1, 1, 3>>, <<0, 4, 1, 3>>, <<6, 5, 4, 5>>, <<3, 4, 4, 5>>,
    <<5, 4, 4, 5>>, <<0, 5, 3, 2>>, <<6, 7, 5, 7>>, <<3, 2, 7, 6>>, <<7, 7, 7, 6>>,
    <<1, 3, 2, 2>>, <<6, 3, 4, 3>>, <<0, 3, 4, 3>>, <<7, 3, 4, 3>>, <<0, 2, 5, 7>>,
    <<6, 6, 5, 7>>, <<1, 6, 2, 6>>, <<4, 3, 1, 0>>, <<0, 0, 1, 0>>, <<7, 6, 2, 6>>,
    <<1, 5, 2, 6>>, <<7, 4, 6, 3>>, <<1, 0, 6, 0>>, <<7, 0, 6, 0>>, <<2, 2, 3, 3>>,
    <<6, 0, 4, 0>>, <<0, 1, 2, 0>>, <<4, 0, 2, 0>>, <<2, 6, 3, 6>>, <<2, 0, 2, 7>>,
    <<0, 6, 2, 7>>, <<4, 5, 3, 6>>, <<1, 2, 2, 2>>, <<3, 6, 2, 7>>, <<0, 7, 2, 7>>,
    <<6, 1, 4, 1>>, <<2, 7, 5, 7>>, <<4, 1, 3, 1>>, <<5, 7, 5, 2>>, <<3, 1, 2, 2>>,
    <<5, 2, 2, 2>>, <<6, 3, 5, 3>>, <<2, 2, 7, 2>>, <<7, 1, 5, 2>>, <<7, 2, 5, 2>>,
    <<5, 3, 5, 2>>>>

(* A game of captures down to king and knight against king, White to move: flagged as well *)
LoneKnightLine ==
  <<<<6, 0, 5, 0>>, <<1, 4, 2, 4>>, <<6, 3, 5, 3>>, <<0, 5, 5, 0>>, <<7, 1, 5, 0>>,
    <<1, 7, 2, 7>>, <<7, 2, 2, 7>>, <<0, 6, 2, 7>>, <<7, 4, 6, 3>>, <<1, 5, 3, 5>>,
    <<5, 0, 3, 1>>, <<1, 2, 2, 2>>, <<7, 0, 1, 0>>, <<2, 2, 3, 1>>, <<1, 0, 0, 0>>,
    <<2, 7, 4, 6>>, <<0, 0, 0, 1>>, <<4, 6, 6, 5>>, <<0, 1, 1, 1>>, <<0, 2, 1, 1>>,
    <<7, 3, 7, 2>>, <<0, 7, 6, 7>>, <<7, 7, 6, 7>>, <<0, 3, 0, 2>>, <<6, 3, 7, 4>>,
    <<0, 2, 6, 2>>, <<7, 4, 6, 5>>, <<6, 2, 6, 1>>, <<7, 2, 6, 1>>, <<1, 1, 6, 6>>,
    <<6, 1, 3, 1>>, <<6, 6, 7, 5>>, <<6, 5, 7, 5>>, <<1, 6, 3, 6>>, <<3, 1, 3, 5>>,
    <<2, 4, 3, 5>>, <<6, 7, 4, 7>>, <<3, 6, 4, 7>>, <<6, 4, 4, 4>>, <<3, 5, 4, 4>>,
    <<5, 3, 4, 4>>, <<0, 4, 1, 4>>, <<7, 5, 6, 6>>, <<1, 4, 2, 4>>, <<6, 6, 5, 7>>,
    <<2, 4, 2, 3>>, <<5, 7, 4, 7>>, <<2, 3, 2, 2>>, <<4, 4, 3, 4>>, <<1, 3, 2, 3>>,
    <<3, 4, 2, 3>>, <<2, 2, 2, 3>>>>

(* The same game one ply earlier, Black to move: the black king can take a *)
(* piece or step aside                                                      *)
KingTakesLine == SubSeq(LoneKnightLine, 1, Len(LoneKnightLine) - 1)

(* A game of captures down to king and pawn against king, Black to move: no draw is flagged *)
PawnEndingLine ==
  <<<<7, 6, 5, 5>>, <<1, 1, 3, 1>>, <<7, 1, 5, 0>>, <<0, 1, 2, 0>>, <<5, 0, 3, 1>>,
    <<0, 0, 0, 1>>, <<3, 1, 1, 2>>, <<2, 0, 1, 2>>, <<6, 1, 5, 1>>, <<0, 1, 5, 1>>,
    <<6, 0, 5, 1>>, <<0, 6, 2, 5>>, <<7, 0, 1, 0>>, <<2, 5, 0, 6>>, <<5, 1, 4, 1>>,
    <<1, 5, 2, 5>>, <<1, 0, 1, 2>>, <<0, 3, 1, 2>>, <<6, 6, 5, 6>>, <<1, 2, 5, 6>>,
    <<6, 5, 5, 6>>, <<1, 4, 3, 4>>, <<5, 5, 3, 4>>, <<2, 5, 3, 4>>, <<6, 3, 4, 3>>,
    <<0, 5, 4, 1>>, <<7, 2, 6, 3>>, <<3, 4, 4, 3>>, <<6, 3, 4, 1>>, <<0, 4, 1, 5>>,
    <<7, 3, 4, 3>>, <<0, 2, 2, 0>>, <<4, 3, 1, 3>>, <<0, 6, 1, 4>>, <<4, 1, 1, 4>>,
    <<2, 0, 6, 4>>, <<7, 5, 6, 4>>, <<1, 7, 3, 7>>, <<6, 4, 3, 7>>, <<0, 7, 3, 7>>,
    <<7, 7, 7, 6>>, <<3, 7, 6, 7>>, <<1, 4, 0, 5>>, <<1, 5, 0, 5>>, <<1, 3, 1, 6>>,
    <<0, 5, 1, 6>>, <<7, 4, 7, 5>>, <<6, 7, 6, 2>>, <<7, 6, 6, 6>>, <<6, 2, 6, 6>>,
    <<7, 5, 6, 6>>>>

(* The pawn ending played on until the pawn stands on g7 and the black king *)
(* on b2: White to move can promote on g8                                  *)
PromotionEndingLine ==
  PawnEndingLine \o
  <<<<1, 6, 2, 5>>, <<5, 6, 4, 6>>, <<2, 5, 3, 4>>, <<4, 6, 3, 6>>, <<3, 4, 4, 3>>,
    <<3, 6, 2, 6>>, <<4, 3, 5, 2>>, <<2, 6, 1, 6>>, <<5, 2, 6, 1>>>>

(* Queens to and fro: ...Qc8 Qa3 ...Qb8 Qa2, no pawn move and no capture *)
QueenCycle == <<<<0, 1, 0, 2>>, <<6, 0, 5, 0>>, <<0, 2, 0, 1>>, <<5, 0, 6, 0>>>>

(* A game down to Kh6, Qa2, pawns g6, h7 against Kh8, Qb3, White to move   *)
(* after 99 plies without pawn move or capture; both sides promoted to a   *)
(* queen.  g6-g7 mates, Qa2xb3 stalemates, and every other move draws by   *)
(* the fifty-move rule                                                     *)
MateInOneLine ==
  <<<<6, 4, 4, 4>>, <<1, 2, 3, 2>>, <<6, 5, 4, 5>>, <<1, 5, 3, 5>>, <<4, 4, 3, 5>>,
    <<0, 3, 1, 2>>, <<7, 4, 6, 4>>, <<1, 2, 4, 5>>, <<6, 2, 5, 2>>, <<4, 5, 6, 3>>,
    <<6, 4, 6, 3>>, <<3, 2, 4, 2>>, <<7, 5, 4, 2>>, <<0, 4, 0, 3>>, <<4, 2, 0, 6>>,
    <<0, 7, 0, 6>>, <<7, 6, 5, 7>>, <<1, 7, 3, 7>>, <<7, 3, 3, 7>>, <<0, 3, 1, 2>>,
    <<3, 7, 1, 5>>, <<1, 4, 2, 4>>, <<3, 5, 2, 4>>, <<1, 0, 3, 0>>, <<1, 5, 1, 6>>,
    <<0, 5, 1, 6>>, <<2, 4, 1, 3>>, <<1, 2, 1, 3>>, <<6, 1, 4, 1>>, <<1, 6, 5, 2>>,
    <<7, 1, 5, 2>>, <<1, 3, 2, 4>>, <<6, 3, 6, 4>>, <<3, 0, 4, 1>>, <<7, 2, 6, 3>>,
    <<4, 1, 5, 2>>, <<6, 3, 5, 2>>, <<0, 1, 1, 3>>, <<5, 2, 4, 1>>, <<0, 0, 4, 0>>,
    <<4, 1, 5, 0>>, <<4, 0, 5, 0>>, <<7, 7, 7, 6>>, <<5, 0, 5, 7>>, <<7, 0, 7, 3>>,
    <<0, 6, 0, 3>>, <<7, 3, 1, 3>>, <<2, 4, 1, 3>>, <<7, 6, 7, 3>>, <<1, 3, 0, 4>>,
    <<7, 3, 0, 3>>, <<0, 4, 0, 3>>, <<6, 4, 6, 5>>, <<5, 7, 5, 5>>, <<6, 5, 5, 5>>,
    <<0, 2, 4, 6>>, <<5, 5, 4, 6>>, <<0, 3, 0, 4>>, <<4, 6, 3, 5>>, <<0, 4, 0, 5>>,
    <<6, 6, 4, 6>>, <<0, 5, 0, 6>>, <<4, 6, 3, 6>>, <<0, 6, 0, 7>>, <<6, 7, 4, 7>>,
    <<0, 7, 0, 6>>, <<4, 7, 3, 7>>, <<0, 6, 0, 7>>, <<3, 7, 2, 7>>, <<0, 7, 0, 6>>,
    <<3, 6, 2, 6>>, <<0, 6, 0, 7>>, <<3, 5, 3, 6>>, <<0, 7, 0, 6>>, <<2, 7, 1, 7>>,
    <<0, 6, 0, 7>>, <<3, 6, 2, 7>>,
    <<1, 1, 3, 1>>, <<6, 0, 4, 0>>, <<3, 1, 4, 1>>, <<4, 0, 3, 0>>, <<4, 1, 5, 1>>,
    <<3, 0, 2, 0>>, <<5, 1, 6, 1>>, <<2, 0, 1, 0>>, <<6, 1, 7, 1, BQ>>, <<1, 0, 0, 0, WQ>>,
    <<7, 1, 0, 1>>, <<0, 0, 6, 0>>>>
  \o Repeat(QueenCycle, 24) \o <<<<0, 1, 5, 1>>>>

(* The same game with Black's queen gone to b1 on ply 99: Qa2-g8, guarded  *)
(* by the pawn h7, mates on the hundredth ply without pawn move or capture *)
MateAtHundredLine ==
  SubSeq(MateInOneLine, 1, Len(MateInOneLine) - 1) \o <<<<0, 1, 7, 1>>>>

(* The games that are over: Black has mated, and Black is stalemated *)
FoolsMateEndLine == FoolsMateLine \o <<<<0, 3, 4, 7>>>>
StalemateEndLine == StalemateLine \o <<<<0, 2, 2, 4>>>>

StartLines ==
  <<<<>>, FoolsMateLine, CheckLine, EnPassantLine, CastleLine, CastleAttackedLine, RookCaptureLine,
    PromotionLine, StalemateLine, FiftyMoveEveLine, FiftyMoveLine, BothCastleLine,
    MateAtHundredLine>>

-----------------------------------------------------------------------------
(* The calls made on the position *)

MaxMakes == 1
MaxUndos == 1

NoReturn == [notation |-> "", captured |-> EMPTY, inCheck |-> FALSE,
             isGameOver |-> FALSE, result |-> NullResult]

(* The pieces the promotion dialog offers; 0 is a move passed on as generated *)
PromotionChoices(move, turn) ==
  IF move.promotion
  THEN (IF turn = "w" THEN {0, WQ, WR, WB, WN} ELSE {0, BQ, BR, BB, BN})
  ELSE {0}

Init ==
  /\ gameState = createGameState
  /\ \E i \in 1..Len(StartLines) : script = StartLines[i]
  /\ last = [op |-> "createGameState", move |-> NoMove, ret |-> NoReturn, ok |-> TRUE]
  /\ killerMoves = NoKillers
  /\ botDifficulty = "medium"
  /\ search = IdleSearch
  /\ budget = [makes |-> MaxMakes, undos |-> MaxUndos, bots |-> 0]
  /\ ui = NoUI

(* The next move of the game: a click on a piece, then on the target square *)
(* of one of its legal moves, then for a promotion on the piece script[1][5] *)
(* in the promotion dialog                                                  *)
PlayScript ==
  /\ script # <<>>
  /\ isAlly(gameState.board[script[1][1]][script[1][2]], gameState.turn)
  /\ \E moves \in {getLegalMoves(gameState, script[1][1], script[1][2])} :
       \E i \in 1..Len(moves) :
         /\ moves[i].toR = script[1][3]
         /\ moves[i].toC = script[1][4]
         /\ \E chosen \in {IF moves[i].promotion
                            THEN [moves[i] EXCEPT !.promotionPiece = script[1][5]]
                            ELSE moves[i]} :
              \E r \in {makeMove(gameState, chosen)} :
                /\ gameState' = r.state
                /\ last' = [op |-> "makeMove", move |-> chosen, ret |-> r.ret, ok |-> TRUE]
  /\ script' = Tail(script)
  /\ UNCHANGED <<killerMoves, botDifficulty, search, budget, ui>>

CallMakeMove ==
  /\ script = <<>>
  /\ search.pc = "idle"
  /\ budget.makes > 0
  /\ \E moves \in {getAllLegalMoves(gameState)} :
       \E i \in 1..Len(moves) :
         \E pp \in PromotionChoices(moves[i], gameState.turn) :
           \E chosen \in {[moves[i] EXCEPT !.promotionPiece = pp]} :
             \E r \in {makeMove(gameState, chosen)} :
               /\ gameState' = r.state
               /\ last' = [op |-> "makeMove", move |-> chosen, ret |-> r.ret, ok |-> TRUE]
  /\ budget' = [budget EXCEPT !.makes = @ - 1]
  /\ UNCHANGED <<killerMoves, botDifficulty, search, script, ui>>

CallUndoMove ==
  /\ script = <<>>
  /\ search.pc = "idle"
  /\ budget.undos > 0
  /\ LET r == undoMove(gameState)
     IN /\ gameState' = r.state
        /\ last' = [op |-> "undoMove", move |-> NoMove, ret |-> NoReturn, ok |-> r.ret]
  /\ budget' = [budget EXCEPT !.undos = @ - 1]
  /\ UNCHANGED <<killerMoves, botDifficulty, search, script, ui>>

-----------------------------------------------------------------------------
(* getBotMove, one step per pass of the loop over the root moves *)

MaxBotCalls == 2

(* The positions getBotMove is called on, each with the difficulty chosen *)
BotCases ==
  {<<BareKingsLine, "beginner">>, <<BareKingsLine, "medium">>, <<BareKingsLine, "pro">>,
   <<FoolsMateEndLine, "beginner">>, <<FoolsMateEndLine, "medium">>,
   <<FoolsMateEndLine, "pro">>,
   <<StalemateEndLine, "beginner">>, <<StalemateEndLine, "medium">>,
   <<StalemateEndLine, "pro">>,
   <<LoneKnightLine, "beginner">>, <<LoneKnightLine, "medium">>, <<LoneKnightLine, "pro">>,
   <<PawnEndingLine, "beginner">>, <<PromotionEndingLine, "beginner">>,
   <<PromotionLine, "beginner">>, <<PromotionEndingLine, "medium">>,
   <<MateInOneLine, "beginner">>, <<MateInOneLine, "medium">>, <<MateInOneLine, "pro">>,
   <<StalemateEndLine, "expert">>, <<KingTakesLine, "beginner">>}

(* The games started after a game against the bot, each with its difficulty *)
NewGameCases == {<<PromotionEndingLine, "beginner">>}

InitBot ==
  /\ gameState = createGameState
  /\ \E case \in BotCases :
       /\ script = case[1]
       /\ botDifficulty = case[2]
  /\ last = [op |-> "createGameState", move |-> NoMove, ret |-> NoReturn, ok |-> TRUE]
  /\ killerMoves = NoKillers
  /\ search = IdleSearch
  /\ budget = [makes |-> 0, undos |-> 0, bots |-> MaxBotCalls]
  /\ ui = NoUI

(* The killer store after the first statement of the function getBotMove *)
(* dispatches to: clearKillers() in getMediumMove and getProMove, nothing  *)
(* in getBeginnerMove                                                      *)
entryKillers(profile, killers) == IF profile = "beginner" THEN killers ELSE NoKillers

(* Back to the menu after the bot has moved, selectDifficulty and startGame: *)
(* a new position and new locals, the killer store of ChessBot as it was     *)
NewGame ==
  /\ script = <<>>
  /\ search.pc = "idle"
  /\ last.op = "getBotMove"
  /\ budget.bots > 0
  /\ gameState' = createGameState
  /\ \E case \in NewGameCases :
       /\ script' = case[1]
       /\ botDifficulty' = case[2]
  /\ search' = IdleSearch
  /\ last' = [op |-> "startGame", move |-> NoMove, ret |-> NoReturn, ok |-> TRUE]
  /\ UNCHANGED <<killerMoves, budget, ui>>

(* Entry of getBotMove up to the loop over the ordered root moves; without *)
(* legal moves it returns null at once                                      *)
BotBegin ==
  /\ script = <<>>
  /\ search.pc = "idle"
  /\ budget.bots > 0
  /\ \E moves \in {getAllLegalMoves(gameState)} :
     LET profile == profileOf(botDifficulty)
         killers == entryKillers(profile, killerMoves)
         maximizing == gameState.turn = "w"
     IN /\ killerMoves' = killers
        /\ IF Len(moves) = 0
           THEN /\ search' = [IdleSearch EXCEPT !.profile = profile, !.entry = gameState,
                                                !.entryStore = killerMoves,
                                                !.peak = Len(gameState.history)]
                /\ last' = [op |-> "getBotMove", move |-> NoMove, ret |-> NoReturn,
                            ok |-> FALSE]
           ELSE /\ search' = [pc |-> IF profile = "pro" THEN "prepass" ELSE "loop",
                              profile |-> profile,
                              maximizing |-> maximizing,
                              ordered |-> orderMoves(moves, gameState, 0, killers),
                              i |-> 1,
                              bestMove |-> NoMove,
                              bestEval |-> IF maximizing THEN 0 - Infinity ELSE Infinity,
                              alpha |-> 0 - Infinity,
                              beta |-> Infinity,
                              moveScores |-> <<>>,
                              entry |-> gameState,
                              entryStore |-> killerMoves,
                              peak |-> Len(gameState.history),
                              paired |-> TRUE]
                /\ last' = [op |-> "search", move |-> NoMove, ret |-> NoReturn, ok |-> TRUE]
  /\ budget' = [budget EXCEPT !.bots = @ - 1]
  /\ UNCHANGED <<gameState, botDifficulty, script, ui>>

(* One pass of the depth-4 loop of getProMove that scores the root moves; *)
(* after the last move the scored moves are sorted for the full search    *)
BotPrepassStep ==
  /\ search.pc = "prepass"
  /\ search.i <= Len(search.ordered)
  /\ LET move == defaultPromotion(search.ordered[search.i], gameState.turn)
         made == makeMove(gameState, move).state
     IN \E child \in {minimax(made, killerMoves, 3, 0 - Infinity, Infinity,
                              ~search.maximizing, TRUE, 4)} :
        LET scored == Append(search.moveScores, [move |-> move, eval |-> child.val])
        IN
        /\ gameState' = undoMove(child.state).state
        /\ killerMoves' = child.killers
        /\ search' = IF search.i = Len(search.ordered)
                     THEN [search EXCEPT !.pc = "loop", !.i = 1, !.moveScores = scored,
                                         !.ordered = sortMoveScores(scored, search.maximizing),
                                         !.peak = Max(@, child.peak),
                                         !.paired = @ /\ child.paired]
                     ELSE [search EXCEPT !.i = @ + 1, !.moveScores = scored,
                                         !.peak = Max(@, child.peak),
                                         !.paired = @ /\ child.paired]
  /\ UNCHANGED <<last, botDifficulty, script, budget, ui>>

(* The comparison of the minimizer, made for both sides *)
isBetter_MinimizerOnly(maximizing, eval, bestEval) == eval < bestEval

(* maximizing ? eval > bestEval : eval < bestEval *)
isBetter(maximizing, eval, bestEval) ==
  IF maximizing THEN eval > bestEval ELSE eval < bestEval

(* The body of the for loop of getBeginnerMove after minimax returned child *)
(* on move: undo, then the comparison with the best value so far            *)
beginnerAfter(best, move, maximizing, child) ==
  [state |-> undoMove(child.state).state,
   killers |-> child.killers,
   bestEval |-> IF isBetter(maximizing, child.val, best.bestEval)
                THEN child.val ELSE best.bestEval,
   bestMove |-> IF isBetter(maximizing, child.val, best.bestEval)
                THEN move ELSE best.bestMove]

(* One pass of the for loop of getBeginnerMove, on the move ordered[i] *)
beginnerPass(best, ordered, i, maximizing) ==
  beginnerAfter(best, defaultPromotion(ordered[i], best.state.turn), maximizing,
    minimax(makeMove(best.state, defaultPromotion(ordered[i], best.state.turn)).state,
            best.killers, 1, 0 - Infinity, Infinity, ~maximizing, FALSE, 2))

RECURSIVE beginnerRange(_, _, _, _, _)

(* The passes of the for loop of getBeginnerMove on ordered[lo] .. ordered[hi] *)
beginnerRange(best, ordered, lo, hi, maximizing) ==
  IF lo = hi THEN beginnerPass(best, ordered, lo, maximizing)
  ELSE beginnerRange(beginnerRange(best, ordered, lo, (lo + hi) \div 2, maximizing),
                     ordered, (lo + hi) \div 2 + 1, hi, maximizing)

(* getBeginnerMove once the legal moves are generated *)
beginnerMoves(state, killers, moves, maximizing) ==
  IF Len(moves) = 0 THEN NoMove
  ELSE beginnerRange([state |-> state, killers |-> killers, bestMove |-> NoMove,
                      bestEval |-> IF maximizing THEN 0 - Infinity ELSE Infinity],
                     orderMoves(moves, state, 0, killers), 1, Len(moves),
                     maximizing).bestMove

(* The move getBeginnerMove returns on state when the killer store holds *)
(* killers at its entry                                                  *)
getBeginnerMove(state, killers) ==
  beginnerMoves(state, killers, getAllLegalMoves(state), state.turn = "w")

(* One pass of the loop over the root moves: make, search, undo, compare *)
BotStep ==
  /\ search.pc = "loop"
  /\ search.i <= Len(search.ordered)
  /\ LET depth == searchDepth(search.profile)
         move == defaultPromotion(search.ordered[search.i], gameState.turn)
         made == makeMove(gameState, move).state
     IN \E child \in {minimax(made, killerMoves, depth - 1,
                              IF search.profile = "pro" THEN search.alpha ELSE 0 - Infinity,
                              IF search.profile = "pro" THEN search.beta ELSE Infinity,
                              ~search.maximizing, search.profile # "beginner", depth)} :
        LET better == isBetter(search.maximizing, child.val, search.bestEval)
        IN
        /\ gameState' = undoMove(child.state).state
        /\ killerMoves' = child.killers
        /\ search' = [search EXCEPT
                        !.i = @ + 1,
                        !.bestEval = IF better THEN child.val ELSE @,
                        !.bestMove = IF better THEN move ELSE @,
                        !.alpha = IF search.profile = "pro" /\ search.maximizing
                                  THEN Max(@, child.val) ELSE @,
                        !.beta = IF search.profile = "pro" /\ ~search.maximizing
                                 THEN Min(@, child.val) ELSE @,
                        !.peak = Max(@, child.peak),
                        !.paired = @ /\ child.paired]
  /\ UNCHANGED <<last, botDifficulty, script, budget, ui>>

(* The loop is over: getBotMove returns bestMove *)
BotReturn ==
  /\ search.pc = "loop"
  /\ search.i > Len(search.ordered)
  /\ search' = [search EXCEPT !.pc = "idle"]
  /\ last' = [op |-> "getBotMove", move |-> search.bestMove, ret |-> NoReturn,
              ok |-> search.bestMove # NoMove]
  /\ UNCHANGED <<gameState, killerMoves, botDifficulty, script, budget, ui>>

NextBot == PlayScript \/ BotBegin \/ BotPrepassStep \/ BotStep \/ BotReturn \/ NewGame

SpecBot == InitBot /\ [][NextBot]_vars

Next == PlayScript \/ CallMakeMove \/ CallUndoMove

Spec == Init /\ [][Next]_vars

(* Every start line is a legal game *)
(* Every move of a game is a legal move of the piece clicked *)
LinesAreLegal ==
  script # <<>> =>
    /\ isAlly(gameState.board[script[1][1]][script[1][2]], gameState.turn)
    /\ \E moves \in {getLegalMoves(gameState, script[1][1], script[1][2])} :
         \E i \in 1..Len(moves) :
           moves[i].toR = script[1][3] /\ moves[i].toC = script[1][4]

-----------------------------------------------------------------------------
(* isInsufficientMaterial on boards of two kings and a few more pieces *)

MaxExtraPieces == 2

NonKingPieces == {WP, WN, WB, WR, WQ, BP, BN, BB, BR, BQ}

(* a3 and b4 are dark squares, c4 and f5 light ones *)
MaterialSquares == {<<5, 0>>, <<4, 1>>, <<4, 2>>, <<3, 5>>}

(* Kings on e1 and e8, and piece placed[sq] on every square sq of its domain *)
materialBoard(placed) ==
  [r \in 0..7 |-> [c \in 0..7 |->
     IF <<r, c>> \in DOMAIN placed THEN placed[<<r, c>>]
     ELSE IF r = 7 /\ c = 4 THEN WK
     ELSE IF r = 0 /\ c = 4 THEN BK
     ELSE EMPTY]]

InitMaterial ==
  /\ \E S \in {T \in SUBSET MaterialSquares : Cardinality(T) <= MaxExtraPieces} :
       \E placed \in [S -> NonKingPieces] :
         gameState = [createGameState EXCEPT !.board = materialBoard(placed),
                                             !.castling = [wK |-> FALSE, wQ |-> FALSE,
                                                           bK |-> FALSE, bQ |-> FALSE]]
  /\ last = [op |-> "createGameState", move |-> NoMove, ret |-> NoReturn, ok |-> TRUE]
  /\ killerMoves = NoKillers
  /\ botDifficulty = "medium"
  /\ search = IdleSearch
  /\ script = <<>>
  /\ budget = [makes |-> 0, undos |-> 0, bots |-> 0]
  /\ ui = NoUI

CallIsInsufficientMaterial ==
  /\ last.op # "isInsufficientMaterial"
  /\ last' = [op |-> "isInsufficientMaterial", move |-> NoMove, ret |-> NoReturn,
              ok |-> isInsufficientMaterial(gameState.board)]
  /\ UNCHANGED <<gameState, killerMoves, botDifficulty, search, script, budget, ui>>

NextMaterial == CallIsInsufficientMaterial

SpecMaterial == InitMaterial /\ [][NextMaterial]_vars

-----------------------------------------------------------------------------
(* Properties of the rules engine *)

(* The side that made the last move *)
Mover == IF gameState.turn = "w" THEN "b" ELSE "w"

(* The snapshot taken by the last makeMove *)
Prev == gameState.history[Len(gameState.history)]

PositionFields(s) ==
  <<s.board, s.castling, s.enPassant, s.halfMoveClock, s.fullMoveNumber,
    s.capturedWhite, s.capturedBlack, s.moveList, s.turn, s.isGameOver, s.result>>

(* C1: makeMove followed by undoMove leaves board, castling, enPassant, the  *)
(* clocks, the captured lists, moveList, turn, isGameOver and result as they *)
(* were before the makeMove, also when a draw was already flagged.           *)
C1_UndoRoundTrip ==
  [][last'.op = "makeMove" =>
       PositionFields(undoMove(gameState').state) = PositionFields(gameState)]_vars

(* C2: when getBotMove returns, at every difficulty, every field of the *)
(* position, history included, has the value it had on entry.           *)
C2_SearchLeavesPosition ==
  (last.op = "getBotMove" /\ search.pc = "idle") => gameState = search.entry

(* C3: after makeMove of a legal move the king of the side that moved is not *)
(* attacked.                                                                 *)
C3_SelfCheckFreedom ==
  last.op = "makeMove" => ~isInCheck(gameState.board, Mover)

(* A move was made by a side that was in check *)
C3_Witness ==
  /\ last.op = "makeMove"
  /\ isInCheck(Prev.board, Prev.turn)
  /\ ~isInCheck(gameState.board, Mover)

(* C4: every reachable board holds exactly one white and one black king. *)
C4_KingCount ==
  CountOf(gameState.board, WK) = 1 /\ CountOf(gameState.board, BK) = 1

(* A king has just castled *)
C4_Witness ==
  /\ last.op = "makeMove"
  /\ last.move.castleKing
  /\ gameState.board[7][6] = WK

(* C5: after makeMove, a side to move without legal moves means game over,  *)
(* won by the mover if that side is in check and drawn if not; with a legal *)
(* move left, no win is declared.                                           *)
C5_MateAndStalemate ==
  last.op = "makeMove" =>
    LET n == Len(getAllLegalMoves(gameState))
        inCheck == isInCheck(gameState.board, gameState.turn)
        win == IF Mover = "w" THEN "white" ELSE "black"
    IN /\ n = 0 => /\ gameState.isGameOver /\ last.ret.isGameOver
                   /\ gameState.result = (IF inCheck THEN win ELSE "draw")
                   /\ last.ret.result = gameState.result
       /\ n > 0 => /\ gameState.result \notin {"white", "black"}
                   /\ last.ret.result \notin {"white", "black"}

(* Black has just mated *)
C5_Witness ==
  /\ last.op = "makeMove"
  /\ Len(getAllLegalMoves(gameState)) = 0
  /\ isInCheck(gameState.board, "w")
  /\ gameState.result = "black"

(* C6: a promotion move passed to makeMove without promotionPiece leaves a *)
(* queen of the mover's colour on the destination square.                  *)
C6_PromotionDefault ==
  (last.op = "makeMove" /\ last.move.promotion /\ last.move.promotionPiece = 0) =>
    gameState.board[last.move.toR][last.move.toC] = (IF Mover = "w" THEN WQ ELSE BQ)

(* The squares of board that hold a piece of pieces *)
SquaresOf(board, pieces) == {i \in 0..63 : board[i \div 8][i % 8] \in pieces}

(* The material that cannot mate: K v K, K and one minor piece v K, K+B v K+B *)
(* with one bishop per side, both on squares of the same colour              *)
DrawnMaterial(board) ==
  LET others == SquaresOf(board, NonKingPieces)
      minors == SquaresOf(board, {WN, BN, WB, BB})
      wb == SquaresOf(board, {WB})
      bb == SquaresOf(board, {BB})
      colour(i) == ((i \div 8) + (i % 8)) % 2
  IN \/ others = {}
     \/ Cardinality(others) = 1 /\ minors = others
     \/ /\ Cardinality(others) = 2 /\ Cardinality(wb) = 1 /\ Cardinality(bb) = 1
        /\ \A i \in wb : \A j \in bb : colour(i) = colour(j)

(* C7: on a board with one king per colour, isInsufficientMaterial is true *)
(* exactly for K v K, K and one minor piece v K, and K+B v K+B with one    *)
(* bishop per side on squares of the same colour.                          *)
C7_InsufficientMaterialExact ==
  last.op = "isInsufficientMaterial" => (last.ok <=> DrawnMaterial(gameState.board))

(* King and rook of a castling right stand on their home squares in board *)
AtHome(board, king, rook, row, rookCol) ==
  board[row][4] = king /\ board[row][rookCol] = rook

(* ... now and before every ply of the current game *)
NeverLeftHome(king, rook, row, rookCol) ==
  /\ AtHome(gameState.board, king, rook, row, rookCol)
  /\ \A i \in 1..Len(gameState.history) :
       AtHome(gameState.history[i].board, king, rook, row, rookCol)

(* C8: a castling right that is still held implies that its king and rook *)
(* are on their home squares and were there at every earlier ply.         *)
C8_CastlingRights ==
  /\ gameState.castling.wK => NeverLeftHome(WK, WR, 7, 7)
  /\ gameState.castling.wQ => NeverLeftHome(WK, WR, 7, 0)
  /\ gameState.castling.bK => NeverLeftHome(BK, BR, 0, 7)
  /\ gameState.castling.bQ => NeverLeftHome(BK, BR, 0, 0)

(* The rook on h8 has just been captured, the other rights are still held *)
C8_Witness ==
  /\ last.op = "makeMove"
  /\ last.move.toR = 0 /\ last.move.toC = 7 /\ last.ret.captured = BR
  /\ ~gameState.castling.bK
  /\ gameState.castling.bQ /\ gameState.castling.wK /\ gameState.castling.wQ

(* The conditions under which the king of turn may castle to column toC *)
CastlingAllowed(state, turn, kingside) ==
  LET row == IF turn = "w" THEN 7 ELSE 0
      right == IF turn = "w"
               THEN (IF kingside THEN state.castling.wK ELSE state.castling.wQ)
               ELSE (IF kingside THEN state.castling.bK ELSE state.castling.bQ)
      between == IF kingside THEN {5, 6} ELSE {1, 2, 3}
      kingPath == IF kingside THEN {4, 5, 6} ELSE {4, 3, 2}
  IN /\ right
     /\ \A c \in between : state.board[row][c] = EMPTY
     /\ \A c \in kingPath : ~isSquareAttacked(state.board, row, c, turn)

(* C9: a castling move is among the legal moves of a king only from column 4 *)
(* of its back rank, with the right held, the squares between king and rook  *)
(* empty and the king's source, pass-through and destination unattacked.     *)
C9_CastlingOffered ==
  \A i \in 0..63 :
    LET r == i \div 8
        c == i % 8
        piece == gameState.board[r][c]
        moves == getLegalMoves(gameState, r, c)
    IN piece \in {WK, BK} =>
         \A j \in 1..Len(moves) :
           (moves[j].castleKing \/ moves[j].castleQueen) =>
             /\ r = (IF piece = WK THEN 7 ELSE 0) /\ c = 4
             /\ moves[j].toR = r
             /\ moves[j].toC = (IF moves[j].castleKing THEN 6 ELSE 2)
             /\ CastlingAllowed(gameState, colorOf(piece), moves[j].castleKing)

(* Kingside castling is offered to White *)
C9_Witness ==
  /\ gameState.turn = "w"
  /\ \E j \in 1..Len(getLegalMoves(gameState, 7, 4)) :
       getLegalMoves(gameState, 7, 4)[j].castleKing

(* The last move advanced a pawn by two rows *)
WasDoublePush ==
  /\ gameState.board[last.move.toR][last.move.toC] \in {WP, BP}
  /\ last.move.fromC = last.move.toC
  /\ (last.move.toR - last.move.fromR) \in {-2, 2}

(* C10: after makeMove, enPassant is set exactly when the move was a double *)
(* pawn push, and then it is the square the pawn skipped.                   *)
C10_EnPassantLifetime ==
  last.op = "makeMove" =>
    /\ (gameState.enPassant # NullSquare) <=> WasDoublePush
    /\ WasDoublePush =>
         /\ gameState.enPassant.col = last.move.toC
         /\ 2 * gameState.enPassant.row = last.move.fromR + last.move.toR

(* A move other than a double push has cleared an en-passant target *)
C10_Witness ==
  /\ last.op = "makeMove"
  /\ Prev.enPassant # NullSquare
  /\ gameState.enPassant = NullSquare

(* C11 as stated: enPassant, when set, is on row 2 with Black to move or on *)
(* row 5 with White to move.                                               *)
C11_TargetRowAsStated ==
  gameState.enPassant # NullSquare =>
    \/ gameState.enPassant.row = 2 /\ gameState.turn = "b"
    \/ gameState.enPassant.row = 5 /\ gameState.turn = "w"

(* C11: enPassant, when set, is on row 2 with White to move (a black pawn  *)
(* went from row 1 to row 3) or on row 5 with Black to move (a white pawn  *)
(* went from row 6 to row 4): the side to move is the side that may capture. *)
C11_TargetRow ==
  gameState.enPassant # NullSquare =>
    \/ gameState.enPassant.row = 2 /\ gameState.turn = "w"
    \/ gameState.enPassant.row = 5 /\ gameState.turn = "b"

(* Black has just pushed a pawn by two rows and White may capture it *)
C11_Witness ==
  /\ last.op = "makeMove"
  /\ gameState.enPassant # NullSquare
  /\ gameState.enPassant.row = 2
  /\ gameState.turn = "w"
  /\ \E i \in 1..Len(getAllLegalMoves(gameState)) : getAllLegalMoves(gameState)[i].enPassant

(* C12: after makeMove of an en-passant move the capturing pawn is on the   *)
(* target square, which was empty; the enemy pawn beside the source square, *)
(* in the target's column, is gone; the captured list of the victim's       *)
(* colour has one more pawn, the other list is as before; halfMoveClock = 0 *)
C12_EnPassantCapture ==
  (last.op = "makeMove" /\ last.move.enPassant) =>
    LET m == last.move
        pawn == IF Mover = "w" THEN WP ELSE BP
        victim == IF Mover = "w" THEN BP ELSE WP
    IN /\ Prev.board[m.fromR][m.fromC] = pawn
       /\ Prev.board[m.toR][m.toC] = EMPTY
       /\ Prev.board[m.fromR][m.toC] = victim
       /\ gameState.board[m.toR][m.toC] = pawn
       /\ gameState.board[m.fromR][m.fromC] = EMPTY
       /\ gameState.board[m.fromR][m.toC] = EMPTY
       /\ CountOf(gameState.board, victim) = CountOf(Prev.board, victim) - 1
       /\ IF Mover = "w"
          THEN /\ gameState.capturedBlack = Append(Prev.capturedBlack, BP)
               /\ gameState.capturedWhite = Prev.capturedWhite
          ELSE /\ gameState.capturedWhite = Append(Prev.capturedWhite, WP)
               /\ gameState.capturedBlack = Prev.capturedBlack
       /\ gameState.halfMoveClock = 0

(* White has just captured en passant on d6 *)
C12_Witness ==
  /\ last.op = "makeMove"
  /\ last.move.enPassant
  /\ gameState.board[2][3] = WP
  /\ gameState.board[3][3] = EMPTY
  /\ gameState.capturedBlack = <<BP>>

(* The side to move has no legal move and is in check *)
IsMated(state) ==
  Len(getAllLegalMoves(state)) = 0 /\ isInCheck(state.board, state.turn)

(* The side to move has no legal move and is not in check *)
IsStalemated(state) ==
  Len(getAllLegalMoves(state)) = 0 /\ ~isInCheck(state.board, state.turn)

(* The move resets the half-move clock: a pawn move or a capture *)
ResetsClock(state, move) ==
  \/ state.board[move.fromR][move.fromC] \in {WP, BP}
  \/ state.board[move.toR][move.toC] # EMPTY
  \/ move.enPassant

(* C13: makeMove sets halfMoveClock to 0 on a pawn move or capture and adds *)
(* 1 otherwise; on a game that is not over, the move that brings the clock  *)
(* to 100 ends the game, as a draw unless it mates, and below 100 the game  *)
(* becomes a draw only by stalemate or insufficient material.               *)
C13_FiftyMoveRule ==
  [][last'.op = "makeMove" =>
       /\ gameState'.halfMoveClock = (IF ResetsClock(gameState, last'.move) THEN 0
                                      ELSE gameState.halfMoveClock + 1)
       /\ (~gameState.isGameOver /\ gameState'.halfMoveClock = 100) =>
            /\ gameState'.isGameOver
            /\ IsMated(gameState') \/ gameState'.result = "draw"
       /\ (~gameState.isGameOver /\ gameState'.halfMoveClock < 100
           /\ gameState'.isGameOver /\ gameState'.result = "draw") =>
            IsStalemated(gameState') \/ isInsufficientMaterial(gameState'.board)]_vars

(* The hundredth ply without pawn move or capture has just ended the game *)
(* as a draw, with legal moves left and material to mate                  *)
C13_Witness ==
  /\ last.op = "makeMove"
  /\ Len(gameState.history) = 100
  /\ gameState.halfMoveClock = 100
  /\ gameState.isGameOver /\ gameState.result = "draw"
  /\ Len(getAllLegalMoves(gameState)) > 0
  /\ ~isInsufficientMaterial(gameState.board)

(* C14: history is empty after createGameState, every makeMove adds one    *)
(* entry, every undoMove that returns true removes one and an undoMove     *)
(* that returns false leaves it: its length is the number of makeMove      *)
(* calls minus the number of successful undoMove calls.                    *)
C14_HistoryLength ==
  /\ Len(gameState.history) = 0
  /\ [][/\ last'.op = "makeMove" => Len(gameState'.history) = Len(gameState.history) + 1
        /\ (last'.op = "undoMove" /\ last'.ok) =>
             Len(gameState'.history) = Len(gameState.history) - 1
        /\ (last'.op = "undoMove" /\ ~last'.ok) =>
             Len(gameState'.history) = Len(gameState.history)]_vars

(* A move of a game of several plies has just been taken back *)
C14_Witness ==
  /\ last.op = "undoMove"
  /\ last.ok
  /\ Len(gameState.history) > 1
  /\ Len(gameState.moveList) = Len(gameState.history)

(* C15: undoMove on an empty history returns false and leaves every field  *)
(* of the position as it was; on a non-empty history it returns true.      *)
C15_UndoOnEmptyStack ==
  [][last'.op = "undoMove" =>
       IF Len(gameState.history) = 0
       THEN ~last'.ok /\ gameState' = gameState
       ELSE last'.ok]_vars

(* undoMove has just returned false on the position of a new game *)
C15_Witness ==
  /\ last.op = "undoMove"
  /\ ~last.ok
  /\ Len(gameState.history) = 0
  /\ gameState = createGameState

-----------------------------------------------------------------------------
(* The search agent's contract *)

(* getBotMove has returned *)
BotReturned == last.op = "getBotMove" /\ search.pc = "idle"

(* C16: at every difficulty getBotMove returns null exactly when the *)
(* position on entry has no legal moves.                             *)
C16_NullIffNoMoves ==
  BotReturned => (last.move = NoMove <=> Len(getAllLegalMoves(search.entry)) = 0)

(* getBotMove has returned null on a mated side, and a move elsewhere *)
C16_Witness ==
  /\ BotReturned
  /\ last.move = NoMove
  /\ IsMated(search.entry)

(* The same squares and the same flags *)
SameSquaresAndFlags(a, b) ==
  /\ a.fromR = b.fromR /\ a.fromC = b.fromC /\ a.toR = b.toR /\ a.toC = b.toC
  /\ a.capture = b.capture /\ a.promotion = b.promotion /\ a.doublePush = b.doublePush
  /\ a.enPassant = b.enPassant /\ a.castleKing = b.castleKing
  /\ a.castleQueen = b.castleQueen

(* C17: on a position with a legal move, the move getBotMove returns has the *)
(* squares and flags of a legal move of the position on entry, and a         *)
(* promotion carries a promotion piece of the mover's colour.                *)
C17_BotLegality ==
  BotReturned =>
    \A moves \in {getAllLegalMoves(search.entry)} :
      Len(moves) > 0 =>
        /\ \E i \in 1..Len(moves) : SameSquaresAndFlags(last.move, moves[i])
        /\ last.move.promotion => isAlly(last.move.promotionPiece, search.entry.turn)

(* getBotMove has returned a promotion *)
C17_Witness ==
  /\ BotReturned
  /\ last.move.promotion
  /\ last.move.promotionPiece = WQ
  /\ search.entry.turn = "w"

(* The root move the running search is about to make, and the position after it *)
RootMove == defaultPromotion(search.ordered[search.i], gameState.turn)
RootChild == makeMove(gameState, RootMove).state

(* What minimax returns for the position after the root move, as the loop *)
(* of the running profile calls it                                         *)
RootChildValue(made) ==
  IF search.pc = "prepass"
  THEN minimax(made, killerMoves, 3, 0 - Infinity, Infinity, ~search.maximizing, TRUE, 4).val
  ELSE minimax(made, killerMoves, searchDepth(search.profile) - 1,
               IF search.profile = "pro" THEN search.alpha ELSE 0 - Infinity,
               IF search.profile = "pro" THEN search.beta ELSE Infinity,
               ~search.maximizing, search.profile # "beginner",
               searchDepth(search.profile)).val

(* The value stated for a node without legal moves, ply plies below the root *)
TerminalValue(state, maximizing, ply) ==
  IF isInCheck(state.board, state.turn)
  THEN (IF maximizing THEN -99999 + ply ELSE 99999 - ply)
  ELSE 0

(* C18: a node of the search at remaining depth > 0 whose side to move has  *)
(* no legal moves is valued -99999 + ply or 99999 - ply when that side is   *)
(* in check and 0 when it is not; here the nodes one ply below the root.    *)
C18_MateScoring ==
  (search.pc \in {"loop", "prepass"} /\ search.i <= Len(search.ordered)) =>
    \A made \in {RootChild} :
      Len(getAllLegalMoves(made)) = 0 =>
        RootChildValue(made) = TerminalValue(made, ~search.maximizing, 1)

(* The colour name of the side to move *)
MoverName(state) == IF state.turn = "w" THEN "white" ELSE "black"

(* Some legal move of state, played with the default promotion, mates *)
HasMateInOne(state) ==
  \E moves \in {getAllLegalMoves(state)} :
    \E i \in 1..Len(moves) :
      makeMove(state, defaultPromotion(moves[i], state.turn)).state.result = MoverName(state)

(* C19: medium and pro, on a position with a legal move that mates, return *)
(* a move that mates.                                                      *)
C19_MateInOneSelected ==
  (BotReturned /\ search.profile \in {"medium", "pro"} /\ HasMateInOne(search.entry)) =>
    /\ last.move # NoMove
    /\ makeMove(search.entry, last.move).state.result = MoverName(search.entry)

-----------------------------------------------------------------------------
(* The suffixes of the notation *)

(* The string s ends with the character ch *)
EndsWith(s, ch) == Len(s) > 0 /\ SubSeq(s, Len(s), Len(s)) = ch

(* C20: the notation makeMove returns is the one it appends to moveList; it *)
(* ends with "#" exactly when the opponent is in check without legal moves, *)
(* with "+" exactly when the opponent is in check with a legal move; the    *)
(* inCheck flag returned is isInCheck for the opponent after the move.      *)
C20_CheckAndMateSuffixes ==
  last.op = "makeMove" =>
    \A noMoves \in {Len(getAllLegalMoves(gameState)) = 0} :
      \A inCheck \in {isInCheck(gameState.board, gameState.turn)} :
        /\ Len(gameState.moveList) > 0
        /\ gameState.moveList[Len(gameState.moveList)] = last.ret.notation
        /\ EndsWith(last.ret.notation, "#") <=> (inCheck /\ noMoves)
        /\ EndsWith(last.ret.notation, "+") <=> (inCheck /\ ~noMoves)
        /\ last.ret.inCheck = inCheck

(* makeMove has given check, the opponent has a legal move, and the notation *)
(* ends with "+"                                                             *)
C20_Witness ==
  /\ last.op = "makeMove"
  /\ isInCheck(gameState.board, gameState.turn)
  /\ Len(getAllLegalMoves(gameState)) > 0
  /\ last.ret.inCheck
  /\ EndsWith(last.ret.notation, "+")

-----------------------------------------------------------------------------
(* The notation tells the legal moves of a position apart *)

(* The legal moves of state, a promotion once for every choice of piece *)
MovesWithChoices(state) ==
  UNION {{[move EXCEPT !.promotionPiece = pp] : pp \in PromotionChoices(move, state.turn)} :
         move \in {getAllLegalMoves(state)[i] : i \in 1..Len(getAllLegalMoves(state))}}

(* The notation makeMove builds for move, before the suffix *)
NotationOf(state, move) ==
  buildNotation(state, move, state.board[move.fromR][move.fromC],
                state.board[move.toR][move.toC])

(* C21: in every position the notations built for two distinct legal moves, *)
(* distinct in the squares or in the promotion piece chosen, are different. *)
C21_NotationUnique ==
  \A moves \in {MovesWithChoices(gameState)} :
    Cardinality({NotationOf(gameState, m) : m \in moves}) = Cardinality(moves)

(* Two pieces of one kind, not pawns, can move to one square *)
C21_Ambiguous(state) ==
  \E moves \in {MovesWithChoices(state)} :
    \E m, n \in moves :
      /\ m.toR = n.toR /\ m.toC = n.toC
      /\ (m.fromR # n.fromR \/ m.fromC # n.fromC)
      /\ state.board[m.fromR][m.fromC] = state.board[n.fromR][n.fromC]
      /\ state.board[m.fromR][m.fromC] \notin {WP, BP}

(* A position in which the notation has to name the square a piece comes from *)
C21_Witness == C21_Ambiguous(gameState)

-----------------------------------------------------------------------------
(* The captured piece makeMove returns *)

(* The pieces of the side that did not move that stood on before and are  *)
(* gone from their squares on after                                       *)
RemovedPieces(before, after) ==
  {before[i \div 8][i % 8] : i \in {j \in 0..63 :
      /\ isEnemy(before[j \div 8][j % 8], Mover)
      /\ after[j \div 8][j % 8] # before[j \div 8][j % 8]}}

(* C22: the captured field makeMove returns is the enemy piece the move   *)
(* took off the board, by ordinary capture or en passant, and it is empty *)
(* exactly when the move took none.                                       *)
C22_ReturnedCaptured ==
  last.op = "makeMove" =>
    \A removed \in {RemovedPieces(Prev.board, gameState.board)} :
      IF removed = {} THEN last.ret.captured = EMPTY ELSE last.ret.captured \in removed

-----------------------------------------------------------------------------
(* The killer-move store *)

(* The plies and the moves of the cutoffs: three moves without the capture *)
(* flag and one with it                                                   *)
MaxKillerPly == 2

CutoffMoves ==
  {addMove(6, 4, 4, 4, {"doublePush"}), addMove(7, 6, 5, 5, {}), addMove(7, 1, 5, 2, {}),
   addMove(4, 4, 3, 3, {"capture"})}

InitKillers ==
  /\ gameState = createGameState
  /\ script = <<>>
  /\ last = [op |-> "createGameState", move |-> NoMove, ret |-> NoReturn, ok |-> TRUE]
  /\ killerMoves = NoKillers
  /\ botDifficulty = "medium"
  /\ search = IdleSearch
  /\ budget = [makes |-> 0, undos |-> 0, bots |-> 0]
  /\ ui = NoUI

(* A cutoff in minimax at ply currentDepth on move: the move is stored *)
(* unless it is a capture                                              *)
Cutoff ==
  /\ \E currentDepth \in 1..MaxKillerPly :
       \E move \in CutoffMoves :
         /\ killerMoves' = IF ~move.capture
                            THEN storeKiller(killerMoves, currentDepth, move)
                            ELSE killerMoves
         /\ last' = [op |-> "cutoff", move |-> move, ret |-> NoReturn, ok |-> ~move.capture]
  /\ UNCHANGED <<gameState, botDifficulty, search, script, budget, ui>>

(* clearKillers at the start of a search *)
ClearKillers ==
  /\ killerMoves' = NoKillers
  /\ last' = [op |-> "clearKillers", move |-> NoMove, ret |-> NoReturn, ok |-> TRUE]
  /\ UNCHANGED <<gameState, botDifficulty, search, script, budget, ui>>

NextKillers == Cutoff \/ ClearKillers

SpecKillers == InitKillers /\ [][NextKillers]_vars

(* C23: when a move without the capture flag causes a cutoff at a ply,      *)
(* storeKiller makes it slot 0 of the list of that ply and the move that    *)
(* was in slot 0 becomes slot 1; a list never holds more than two moves and *)
(* never a capture.                                                         *)
C23_KillerRotation ==
  /\ [](\A d \in 0..6 :
          /\ Len(killerMoves[d]) <= 2
          /\ \A k \in 1..Len(killerMoves[d]) : ~killerMoves[d][k].capture)
  /\ [][\A d \in 0..6 :
          (last'.op = "cutoff" /\ killerMoves'[d] # killerMoves[d]) =>
            /\ killerMoves'[d][1] = last'.move
            /\ Len(killerMoves[d]) > 0 =>
                 (Len(killerMoves'[d]) = 2 /\ killerMoves'[d][2] = killerMoves[d][1])]_vars

-----------------------------------------------------------------------------
(* isSquareAttacked on positions that differ in enPassant and castling only *)

(* The en-passant targets and the castling rights the position is given *)
EnPassantChoices == {NullSquare, [row |-> 2, col |-> 3], [row |-> 5, col |-> 4]}
CastlingChoices ==
  {[wK |-> k, wQ |-> q, bK |-> k, bQ |-> ~q] : k, q \in BOOLEAN}

(* The position with the same board and other values of enPassant and castling *)
VaryFields ==
  /\ script = <<>>
  /\ \E e \in EnPassantChoices :
       \E c \in CastlingChoices :
         gameState' = [gameState EXCEPT !.enPassant = e, !.castling = c]
  /\ last' = [op |-> "isSquareAttacked", move |-> NoMove, ret |-> NoReturn, ok |-> TRUE]
  /\ UNCHANGED <<killerMoves, botDifficulty, search, script, budget, ui>>

NextAttack == PlayScript \/ VaryFields

SpecAttack == Init /\ [][NextAttack]_vars

(* The squares isSquareAttacked reports attacked, for each defender colour *)
AttackMap ==
  {<<i, turn>> \in (0..63) \X {"w", "b"} :
     isSquareAttacked(gameState.board, i \div 8, i % 8, turn)}

(* C25: two positions with the same board that differ in enPassant and in *)
(* the castling rights give the same answer of isSquareAttacked for every *)
(* square and both colours.                                               *)
C25_AttackIndependence ==
  [][gameState'.board = gameState.board => AttackMap' = AttackMap]_vars

(* A position with an en-passant target and without castling rights that has *)
(* the board of a game in which neither was so, and attacked squares         *)
C25_Witness ==
  /\ last.op = "isSquareAttacked"
  /\ gameState.enPassant # NullSquare
  /\ ~gameState.castling.wK /\ ~gameState.castling.bK
  /\ Len(gameState.history) > 0
  /\ gameState.history[Len(gameState.history)].enPassant = NullSquare
  /\ AttackMap # {}

-----------------------------------------------------------------------------
(* The effect of a castling move *)

(* The castling moves among the legal moves of the position *)
CastlingMoves(state) ==
  {move \in {getAllLegalMoves(state)[i] : i \in 1..Len(getAllLegalMoves(state))} :
     move.castleKing \/ move.castleQueen}

(* after is before with the king and the rook of the castling move on their *)
(* new squares, their old squares empty, no right left to the mover and the *)
(* rights of the opponent as they were                                      *)
CastleEffect(before, move, after) ==
  LET row == move.fromR
      white == before.turn = "w"
      king == IF white THEN WK ELSE BK
      rook == IF white THEN WR ELSE BR
      kingCol == IF move.castleKing THEN 6 ELSE 2
      rookCol == IF move.castleKing THEN 5 ELSE 3
      corner == IF move.castleKing THEN 7 ELSE 0
  IN /\ row = (IF white THEN 7 ELSE 0)
     /\ after.board[row][kingCol] = king
     /\ after.board[row][rookCol] = rook
     /\ after.board[row][corner] = EMPTY
     /\ after.board[row][4] = EMPTY
     /\ IF white
        THEN /\ ~after.castling.wK /\ ~after.castling.wQ
             /\ after.castling.bK = before.castling.bK
             /\ after.castling.bQ = before.castling.bQ
        ELSE /\ ~after.castling.bK /\ ~after.castling.bQ
             /\ after.castling.wK = before.castling.wK
             /\ after.castling.wQ = before.castling.wQ

(* C29: makeMove of a legal castling move puts the king on column 6        *)
(* (kingside) or 2 (queenside) of its back rank and the rook of the corner *)
(* on column 5 or 3, leaves the corner and the king's square empty, clears *)
(* both castling rights of the mover and keeps those of the opponent.      *)
C29_CastlingEffect ==
  \A moves \in {CastlingMoves(gameState)} :
    \A move \in moves : CastleEffect(gameState, move, makeMove(gameState, move).state)

(* Black, with both rights, is to castle queenside after White has castled *)
(* and lost both of its rights                                             *)
C29_Witness ==
  /\ gameState.turn = "b"
  /\ last.op = "makeMove"
  /\ last.move.castleQueen
  /\ CastleEffect(Prev, last.move, gameState)
  /\ gameState.castling.bK /\ gameState.castling.bQ
  /\ \E move \in CastlingMoves(gameState) :
       /\ move.castleQueen
       /\ makeMove(gameState, move).state.board[0][2] = BK

-----------------------------------------------------------------------------
(* The board of makeMove and the board of the legality filter *)

(* C30: the board makeMove leaves for a legal move, with or without a      *)
(* promotionPiece, is square for square the board applyMoveToBoard makes   *)
(* of the board before the move.                                           *)
C30_ScratchBoardAgrees ==
  last.op = "makeMove" =>
    gameState.board = applyMoveToBoard(Prev.board, last.move, Prev)

-----------------------------------------------------------------------------
(* The killer store at the entry of getBotMove *)

(* C24: every call of getBotMove, at every difficulty, starts its search *)
(* with an empty killer store, whatever searches ran before.             *)
C24_StoreClearedPerSearch ==
  [][budget'.bots < budget.bots => killerMoves' = NoKillers]_vars

-----------------------------------------------------------------------------
(* makeMove and undoMove inside the search *)

(* getBotMove is running or has just returned *)
InOrAfterSearch == search.pc # "idle" \/ last.op = "getBotMove"

(* C26: during getBotMove every makeMove of the root loop, of minimax and of *)
(* quiescence is followed by one undoMove before the frame goes on or        *)
(* returns, also on a cutoff and on a terminal child: every frame returns    *)
(* with history as long as it was entered with.                             *)
C26_MakeUnmakePairing ==
  InOrAfterSearch =>
    /\ search.paired
    /\ gameState.history = search.entry.history
    /\ gameState.board = search.entry.board

(* A medium search has returned that stored killer moves on cutoffs and went *)
(* into quiescence below its four plies                                      *)
C26_Witness ==
  /\ last.op = "getBotMove"
  /\ search.profile = "medium"
  /\ killerMoves # NoKillers
  /\ search.peak > Len(search.entry.history) + 4
  /\ search.paired

(* The plies a search of the profile may be ahead of its entry *)
MaxPlies(profile) ==
  CASE profile = "beginner" -> 2
    [] profile = "medium" -> 4 + 6
    [] OTHER -> 6 + 6

(* The passes of the loops over the root moves a running getBotMove has *)
(* before it, and one for its return; 0 when none is running            *)
StepsLeft(s) ==
  CASE s.pc = "prepass" -> 2 * Len(s.ordered) + 3 - s.i
    [] s.pc = "loop" -> Len(s.ordered) + 2 - s.i
    [] OTHER -> 0

-----------------------------------------------------------------------------
(* The move of getBotMove and the killer store at its entry *)

QuietMoves(moves) == SelectSeq(moves, LAMBDA m : ~m.capture)

(* The store that holds at ply 1 the quiet reply generated last to the first *)
(* of the ordered root moves, and at ply 2 the second of the quiet root      *)
(* moves                                                                     *)
StoreOfMoves(replies, own) ==
  [NoKillers EXCEPT
     ![1] = IF Len(replies) > 0 THEN <<replies[Len(replies)]>> ELSE <<>>,
     ![2] = IF Len(own) > 1 THEN <<own[2]>> ELSE <<>>]

StoreAfter(state, ordered) ==
  IF Len(ordered) = 0 THEN NoKillers
  ELSE StoreOfMoves(
         QuietMoves(getAllLegalMoves(
           makeMove(state, defaultPromotion(ordered[1], state.turn)).state)),
         QuietMoves(ordered))

(* Killer stores as a search before may have left them: the empty store, the *)
(* store found, and a store of quiet moves of this position                  *)
EntryStores(state, found) ==
  {NoKillers, found,
   StoreAfter(state, orderMoves(getAllLegalMoves(state), state, 0, NoKillers))}

(* C28: the move getBotMove returns for a position at a difficulty is the *)
(* same whatever the killer store holds at its entry.                     *)
C28_StoreIndependence ==
  last.op = "getBotMove" =>
    \A killers \in EntryStores(search.entry, search.entryStore) :
      \/ entryKillers(search.profile, killers)
           = entryKillers(search.profile, search.entryStore)
      \/ /\ search.profile = "beginner"
         /\ getBeginnerMove(search.entry, killers) = last.move

(* A beginner search has returned a move that was entered with the killer *)
(* moves of a medium search in the store                                  *)
C28_Witness ==
  /\ last.op = "getBotMove"
  /\ search.profile = "beginner"
  /\ search.entryStore # NoKillers
  /\ last.move # NoMove
  /\ getBeginnerMove(search.entry, NoKillers) = last.move

-----------------------------------------------------------------------------
(* C31: mate outranks the draw rules: after a makeMove that leaves the side *)
(* to move in check without a legal move, result is the colour of the      *)
(* mover, whatever halfMoveClock and the material are; and in every state  *)
(* isGameOver is true exactly when result is not null                      *)
Mated(state) ==
  /\ isInCheck(state.board, state.turn)
  /\ Len(getAllLegalMoves(state)) = 0

C31_MateOutranksDraw ==
  /\ gameState.isGameOver <=> gameState.result # NullResult
  /\ (last.op = "makeMove" /\ Mated(gameState))
       => gameState.result = (IF gameState.turn = "w" THEN "black" ELSE "white")

(* White has mated on the ply that brought halfMoveClock to 100 *)
C31_Witness ==
  /\ last.op = "makeMove"
  /\ gameState.halfMoveClock >= 100
  /\ Mated(gameState)
  /\ gameState.isGameOver
  /\ gameState.result = "white"

-----------------------------------------------------------------------------
(* C32: piece conservation: in every state reached by makeMove and undoMove *)
(* from the initial position the white pieces on the board and the entries  *)
(* of capturedWhite number 16 together, and so do the black pieces and the  *)
(* entries of capturedBlack                                                 *)
PiecesOnBoard(board, white) ==
  Cardinality({i \in 0..63 : /\ board[i \div 8][i % 8] # EMPTY
                              /\ isWhite(board[i \div 8][i % 8]) = white})

C32_PieceConservation ==
  /\ PiecesOnBoard(gameState.board, TRUE) + Len(gameState.capturedWhite) = 16
  /\ PiecesOnBoard(gameState.board, FALSE) + Len(gameState.capturedBlack) = 16

(* A pawn has just been taken en passant *)
C32_EnPassantWitness ==
  /\ last.op = "makeMove"
  /\ last.move.enPassant
  /\ Len(gameState.capturedWhite) + Len(gameState.capturedBlack) = 1

(* A pawn has just promoted to a chosen piece on a capture *)
C32_Witness ==
  /\ last.op = "makeMove"
  /\ last.move.promotion
  /\ last.move.capture
  /\ last.move.promotionPiece # 0
  /\ Len(gameState.capturedBlack) >= 2

-----------------------------------------------------------------------------
(* C33: the counters agree with the history: White is to move exactly when *)
(* history holds an even number of snapshots, fullMoveNumber is one more    *)
(* than half that number rounded down, and moveList is as long as history   *)
C33_CountersFollowHistory ==
  /\ gameState.turn = "w" <=> Len(gameState.history) % 2 = 0
  /\ gameState.fullMoveNumber = 1 + (Len(gameState.history) \div 2)
  /\ Len(gameState.moveList) = Len(gameState.history)

(* A move has been undone after an odd number of plies, at least three *)
C33_Witness ==
  /\ last.op = "undoMove"
  /\ last.ok
  /\ Len(gameState.history) >= 3
  /\ Len(gameState.history) % 2 = 1
  /\ gameState.turn = "b"

-----------------------------------------------------------------------------
(* evaluate called on the positions of the games *)

(* evaluate(gameState), as quiescence and minimax call it on the position *)
(* they are given                                                         *)
CallEvaluate ==
  /\ search.pc = "idle"
  /\ \E r \in {evaluate(gameState)} :
       /\ gameState' = r.state
       /\ last' = [op |-> "evaluate", move |-> NoMove,
                   ret |-> [NoReturn EXCEPT !.notation = ToString(r.val)], ok |-> TRUE]
  /\ UNCHANGED <<killerMoves, botDifficulty, search, script, budget, ui>>

NextEvaluate == PlayScript \/ CallEvaluate

SpecEvaluate == Init /\ [][NextEvaluate]_vars

(* C34: evaluate has no side effect on the position: it sets state.turn to *)
(* "w" and to "b" to count the moves of either side, and when it returns    *)
(* state.turn and every other field of state are as they were on entry,    *)
(* whichever side was to move                                              *)
C34_EvaluateRestoresState ==
  [][last'.op = "evaluate" => gameState' = gameState]_vars

(* evaluate has returned on a position with White to move, which it left *)
(* with turn "b" before restoring it                                     *)
C34_Witness ==
  /\ last.op = "evaluate"
  /\ gameState.turn = "w"
  /\ gameState.history # <<>>

(* evaluate has returned on a position with Black to move *)
C34_BlackWitness ==
  /\ last.op = "evaluate"
  /\ gameState.turn = "b"

-----------------------------------------------------------------------------
(* The order of the root moves *)

(* search.ordered is as orderMoves returned it: getProMove alone sorts the *)
(* root moves again, after its shallow pass                                *)
AsOrdered ==
  \/ search.pc = "prepass"
  \/ search.pc = "loop" /\ search.profile # "pro"

(* C35: in the list orderMoves returns every move flagged capture comes    *)
(* before every move that is neither a capture nor a promotion, whatever   *)
(* piece captures and whatever bonus the quiet move has                    *)
C35_CapturesFirst ==
  AsOrdered =>
    \A i, j \in 1..Len(search.ordered) :
      (/\ search.ordered[i].capture
       /\ ~search.ordered[j].capture
       /\ ~search.ordered[j].promotion) => i < j

-----------------------------------------------------------------------------
(* The page: the handlers of the board, of the promotion dialog and of the *)
(* buttons, the interval timer and the delayed call of makeBotMove.  Every *)
(* handler runs to its end before the next event is taken.                 *)

MaxUIMoves == 2
MaxGames == 1
MaxBotReplies == 2

(* The squares clicked once the scripted moves are played: e2, e4, b7, b8 *)
ClickSquares == {<<6, 4>>, <<4, 4>>, <<1, 1>>, <<0, 1>>}

(* The games the page starts with: mode, difficulty and the moves the two *)
(* players of a player game have clicked before the events are free       *)
UICases == {<<"bot", "beginner", <<>>>>, <<"player", "null", PromotionLine>>}

(* The sort of a captured list in updateCaptured: dearest piece first, stable *)
sortCaptured(list) ==
  LET n == Len(list)
      rank(i) == 1 + Cardinality({j \in 1..n :
                        \/ PIECE_VALUES(list[j]) > PIECE_VALUES(list[i])
                        \/ (PIECE_VALUES(list[j]) = PIECE_VALUES(list[i]) /\ j < i)})
  IN [k \in 1..n |-> list[CHOOSE i \in 1..n : rank(i) = k]]

(* updateCaptured sorts the two captured lists of the position in place *)
updateCaptured(state) ==
  [state EXCEPT !.capturedWhite = sortCaptured(@), !.capturedBlack = sortCaptured(@)]

selectPiece(u, state, r, c) ==
  [u EXCEPT !.selectedSquare = [row |-> r, col |-> c],
            !.legalMovesForSelected = getLegalMoves(state, r, c)]

deselectPiece(u) ==
  [u EXCEPT !.selectedSquare = NullSquare, !.legalMovesForSelected = <<>>]

(* executeMove once makeMove has returned r: the globals of the page after *)
(* it; in a bot game with Black to move the call of makeBotMove is queued  *)
executeMove(u, r) ==
  IF r.ret.isGameOver THEN [deselectPiece(u) EXCEPT !.timerInterval = FALSE]
  ELSE IF u.gameMode = "bot" /\ r.state.turn = "b"
  THEN [deselectPiece(u) EXCEPT !.isBotThinking = TRUE, !.callbacks = @ + 1]
  ELSE deselectPiece(u)

(* What startGame and resetGame assign *)
freshGame(u) ==
  [u EXCEPT !.selectedSquare = NullSquare, !.legalMovesForSelected = <<>>,
            !.whiteTime = StartTime, !.blackTime = StartTime,
            !.isBotThinking = FALSE, !.pendingPromotion = NoMove,
            !.timerInterval = TRUE, !.games = @ - 1]

(* A handler that returned at once *)
Returned(op) == [op |-> op, move |-> NoMove, ret |-> NoReturn, ok |-> FALSE]

(* A handler that went through, without a move of its own *)
Handled(op) == [op |-> op, move |-> NoMove, ret |-> NoReturn, ok |-> TRUE]

InitUI ==
  /\ gameState = createGameState
  /\ \E case \in UICases :
       /\ ui = [freshGame([NoUI EXCEPT !.games = MaxGames + 1])
                  EXCEPT !.screen = "game", !.gameMode = case[1]]
       /\ botDifficulty = case[2]
       /\ script = case[3]
  /\ last = Handled("startGame")
  /\ killerMoves = NoKillers
  /\ search = IdleSearch
  /\ budget = [makes |-> MaxUIMoves, undos |-> 0, bots |-> 0]

(* The next move of a player game: the clicks of PlayScript, through *)
(* handleSquareClick, the promotion dialog and executeMove           *)
ClickScript ==
  /\ script # <<>>
  /\ ui.screen = "game"
  /\ ui.gameMode = "player"
  /\ ~gameState.isGameOver
  /\ isAlly(gameState.board[script[1][1]][script[1][2]], gameState.turn)
  /\ \E moves \in {getLegalMoves(gameState, script[1][1], script[1][2])} :
       \E i \in 1..Len(moves) :
         /\ moves[i].toR = script[1][3]
         /\ moves[i].toC = script[1][4]
         /\ \E chosen \in {IF moves[i].promotion
                            THEN [moves[i] EXCEPT !.promotionPiece = script[1][5]]
                            ELSE moves[i]} :
              \E r \in {makeMove(gameState, chosen)} :
                /\ gameState' = updateCaptured(r.state)
                /\ ui' = executeMove(ui, r)
                /\ last' = [op |-> "executeMove", move |-> chosen, ret |-> r.ret, ok |-> TRUE]
  /\ script' = Tail(script)
  /\ UNCHANGED <<killerMoves, botDifficulty, search, budget>>

(* handleSquareClick(r, c), with selectPiece, deselectPiece,           *)
(* showPromotionModal and executeMove as it calls them                 *)
HandleSquareClick ==
  /\ script = <<>>
  /\ ui.screen = "game"
  /\ \E sq \in ClickSquares :
       LET r == sq[1]
           c == sq[2]
           piece == gameState.board[r][c]
           found == SelectSeq(ui.legalMovesForSelected,
                              LAMBDA m : m.toR = r /\ m.toC = c)
           own == piece # EMPTY /\ isAlly(piece, gameState.turn)
       IN IF gameState.isGameOver \/ ui.isBotThinking \/ ui.pendingPromotion # NoMove
          THEN /\ last' = Returned("handleSquareClick")
               /\ UNCHANGED <<gameState, ui, budget>>
          ELSE IF ui.selectedSquare # NullSquare /\ found # <<>> /\ found[1].promotion
          THEN /\ ui' = [ui EXCEPT !.pendingPromotion = found[1]]
               /\ UNCHANGED <<gameState, last, budget>>
          ELSE IF ui.selectedSquare # NullSquare /\ found # <<>>
          THEN /\ budget.makes > 0
               /\ \E made \in {makeMove(gameState, found[1])} :
                    /\ gameState' = updateCaptured(made.state)
                    /\ ui' = executeMove(ui, made)
                    /\ last' = [op |-> "executeMove", move |-> found[1],
                                ret |-> made.ret, ok |-> TRUE]
               /\ budget' = [budget EXCEPT !.makes = @ - 1]
          ELSE IF ui.selectedSquare # NullSquare
          THEN /\ ui' = IF own THEN selectPiece(ui, gameState, r, c) ELSE deselectPiece(ui)
               /\ UNCHANGED <<gameState, last, budget>>
          ELSE /\ ui' = IF own /\ ~(ui.gameMode = "bot" /\ gameState.turn = "b")
                        THEN selectPiece(ui, gameState, r, c) ELSE ui
               /\ UNCHANGED <<gameState, last, budget>>
  /\ UNCHANGED <<killerMoves, botDifficulty, search, script>>

(* The pieces the promotion dialog shows for the side to move *)
PromotionButtons(turn) == IF turn = "w" THEN {WQ, WR, WB, WN} ELSE {BQ, BR, BB, BN}

(* A click on a button of the promotion dialog: the listener that *)
(* showPromotionModal has added to it                             *)
PromotionChoice ==
  /\ ui.pendingPromotion # NoMove
  /\ budget.makes > 0
  /\ \E p \in PromotionButtons(gameState.turn) :
       \E chosen \in {[ui.pendingPromotion EXCEPT !.promotionPiece = p]} :
         \E r \in {makeMove(gameState, chosen)} :
           /\ gameState' = updateCaptured(r.state)
           /\ ui' = [executeMove(ui, r) EXCEPT !.pendingPromotion = NoMove]
           /\ last' = [op |-> "executeMove", move |-> chosen, ret |-> r.ret, ok |-> TRUE]
  /\ budget' = [budget EXCEPT !.makes = @ - 1]
  /\ UNCHANGED <<killerMoves, botDifficulty, search, script>>

(* The moves getBotMove may return: it searches the legal moves in the    *)
(* order of orderMoves and returns one of them, or null when there is     *)
(* none; the search itself is not run here and its choice is left open    *)
(* among the first MaxBotReplies moves of that order                      *)
BotReplies(state) ==
  LET ordered == orderMoves(getAllLegalMoves(state), state, 0, NoKillers)
  IN {ordered[i] : i \in 1..(IF Len(ordered) < MaxBotReplies
                             THEN Len(ordered) ELSE MaxBotReplies)}

(* makeBotMove, run by a timer set in executeMove *)
MakeBotMove ==
  /\ ui.callbacks > 0
  /\ \E replies \in {IF gameState.isGameOver THEN {} ELSE BotReplies(gameState)} :
       IF replies = {}
       THEN /\ ui' = [ui EXCEPT !.isBotThinking = FALSE, !.callbacks = @ - 1]
            /\ last' = Returned("makeBotMove")
            /\ UNCHANGED gameState
       ELSE \E move \in replies :
              \E r \in {makeMove(gameState, move)} :
                /\ gameState' = updateCaptured(r.state)
                /\ ui' = [deselectPiece(ui) EXCEPT
                            !.isBotThinking = FALSE,
                            !.callbacks = @ - 1,
                            !.timerInterval = IF r.ret.isGameOver THEN FALSE ELSE @]
                /\ last' = [op |-> "makeBotMove", move |-> move, ret |-> r.ret, ok |-> TRUE]
  /\ UNCHANGED <<killerMoves, botDifficulty, search, script, budget>>

(* The callback of the interval timer *)
TimerTick ==
  /\ script = <<>>
  /\ ui.timerInterval
  /\ IF gameState.isGameOver \/ ui.isBotThinking
     THEN UNCHANGED <<gameState, ui, last>>
     ELSE LET white == gameState.turn = "w"
              left == (IF white THEN ui.whiteTime ELSE ui.blackTime) - 1
          IN IF left <= 0
             THEN /\ ui' = [ui EXCEPT !.whiteTime = IF white THEN 0 ELSE @,
                                      !.blackTime = IF white THEN @ ELSE 0,
                                      !.timerInterval = FALSE]
                  /\ gameState' = [gameState EXCEPT
                                     !.isGameOver = TRUE,
                                     !.result = IF white THEN "black" ELSE "white"]
                  /\ last' = Handled("timeout")
             ELSE /\ ui' = [ui EXCEPT !.whiteTime = IF white THEN left ELSE @,
                                      !.blackTime = IF white THEN @ ELSE left]
                  /\ UNCHANGED <<gameState, last>>
  /\ UNCHANGED <<killerMoves, botDifficulty, search, script, budget>>

(* The buttons of the game screen are under the promotion dialog while it *)
(* is open                                                                *)
ButtonsShown == script = <<>> /\ ui.screen = "game" /\ ui.pendingPromotion = NoMove

(* undoMove of the page that takes back a move while the bot is thinking *)
AppUndoMove_WhileThinking ==
  /\ ButtonsShown
  /\ Len(gameState.history) > 0
  /\ \E one \in {undoMove(gameState).state} :
       gameState' = updateCaptured(IF ui.gameMode = "bot" /\ Len(gameState.history) >= 2
                                   THEN undoMove(one).state ELSE one)
  /\ ui' = deselectPiece(ui)
  /\ last' = Handled("undoMove")
  /\ UNCHANGED <<killerMoves, botDifficulty, search, script, budget>>

(* undoMove of the page: the Undo button *)
AppUndoMove ==
  /\ ButtonsShown
  /\ IF Len(gameState.history) = 0 \/ ui.isBotThinking
     THEN /\ last' = Returned("undoMove")
          /\ UNCHANGED <<gameState, ui>>
     ELSE /\ \E one \in {undoMove(gameState).state} :
               gameState' = updateCaptured(IF ui.gameMode = "bot"
                                              /\ Len(gameState.history) >= 2
                                           THEN undoMove(one).state ELSE one)
          /\ ui' = deselectPiece(ui)
          /\ last' = Handled("undoMove")
  /\ UNCHANGED <<killerMoves, botDifficulty, search, script, budget>>

(* resetGame: the timer is started again, a queued makeBotMove stays queued *)
ResetGame ==
  /\ ButtonsShown
  /\ ui.games > 0
  /\ gameState' = createGameState
  /\ ui' = freshGame(ui)
  /\ last' = Handled("resetGame")
  /\ UNCHANGED <<killerMoves, botDifficulty, search, script, budget>>

ResignGame ==
  /\ ButtonsShown
  /\ ~gameState.isGameOver
  /\ gameState' = [gameState EXCEPT !.isGameOver = TRUE,
                                    !.result = IF gameState.turn = "w" THEN "black"
                                               ELSE "white"]
  /\ ui' = [ui EXCEPT !.timerInterval = FALSE]
  /\ last' = Handled("resignGame")
  /\ UNCHANGED <<killerMoves, botDifficulty, search, script, budget>>

BackToSetup ==
  /\ ButtonsShown
  /\ ui' = [ui EXCEPT !.screen = "setup", !.gameMode = "null", !.timerInterval = FALSE]
  /\ botDifficulty' = "null"
  /\ UNCHANGED <<gameState, last, killerMoves, search, script, budget>>

SelectOpponent ==
  /\ ui.screen = "setup"
  /\ \E type \in {"player", "bot"} : ui' = [ui EXCEPT !.gameMode = type]
  /\ botDifficulty' = "null"
  /\ UNCHANGED <<gameState, last, killerMoves, search, script, budget>>

(* The difficulty cards are shown once the bot is chosen as opponent *)
SelectDifficulty ==
  /\ ui.screen = "setup"
  /\ ui.gameMode = "bot"
  /\ botDifficulty' = "beginner"
  /\ UNCHANGED <<gameState, last, killerMoves, search, script, budget, ui>>

StartGame ==
  /\ ui.screen = "setup"
  /\ ui.gameMode # "null"
  /\ ~(ui.gameMode = "bot" /\ botDifficulty = "null")
  /\ ui.games > 0
  /\ gameState' = createGameState
  /\ ui' = [freshGame(ui) EXCEPT !.screen = "game"]
  /\ last' = Handled("startGame")
  /\ UNCHANGED <<killerMoves, botDifficulty, search, script, budget>>

NextUI ==
  \/ ClickScript
  \/ HandleSquareClick
  \/ PromotionChoice
  \/ MakeBotMove
  \/ TimerTick
  \/ AppUndoMove
  \/ ResetGame
  \/ ResignGame
  \/ BackToSetup
  \/ SelectOpponent
  \/ SelectDifficulty
  \/ StartGame

SpecUI == InitUI /\ [][NextUI]_vars

-----------------------------------------------------------------------------
(* C36: while isBotThinking is set, from executeMove to makeBotMove, no    *)
(* click on a square, no promotion choice and no undo applies or takes     *)
(* back a move: the flag is set by executeMove alone, history and board    *)
(* stay as the move of the human left them as long as it is set, and it is *)
(* cleared by makeBotMove or by a new game                                 *)
C36_BotSerialization ==
  /\ [][(~ui.isBotThinking /\ ui'.isBotThinking) => last'.op = "executeMove"]_vars
  /\ [][(ui.isBotThinking /\ ui'.isBotThinking)
          => /\ gameState'.history = gameState.history
             /\ gameState'.board = gameState.board
             /\ gameState'.turn = "b"]_vars
  /\ [][(ui.isBotThinking /\ ~ui'.isBotThinking)
          => last'.op \in {"makeBotMove", "resetGame", "startGame"}]_vars

(* The Undo button was clicked while the bot was thinking about its reply, *)
(* and returned at once                                                    *)
C36_Witness ==
  /\ ui.isBotThinking
  /\ ui.callbacks > 0
  /\ last = Returned("undoMove")
  /\ Len(gameState.history) >= 1

(* A square was clicked while the bot was thinking *)
C36_ClickWitness ==
  /\ ui.isBotThinking
  /\ last = Returned("handleSquareClick")

-----------------------------------------------------------------------------
(* C37: makeBotMove applies a move only in a bot game with Black to move,  *)
(* whatever the user does between executeMove and the delayed call         *)
C37_BotPlaysBlackOnly ==
  [][(last'.op = "makeBotMove" /\ last'.ok /\ gameState'.history # gameState.history)
       => (ui.gameMode = "bot" /\ gameState.turn = "b")]_vars

-----------------------------------------------------------------------------
(* C38: undoMove of the page in a bot game takes back two plies when       *)
(* history holds two or more and one otherwise, and leaves White to move;  *)
(* a bot game on the screen never rests with Black to move, the game not   *)
(* over and no call of makeBotMove pending                                 *)
C38_UndoReturnsControl ==
  /\ []((ui.screen = "game" /\ ui.gameMode = "bot")
          => ~(/\ gameState.turn = "b"
               /\ ~gameState.isGameOver
               /\ ui.callbacks = 0))
  /\ [][(/\ ui.gameMode = "bot"
         /\ last'.op = "undoMove"
         /\ last'.ok
         /\ gameState'.history # gameState.history)
          => /\ Len(gameState'.history) = IF Len(gameState.history) >= 2
                                          THEN Len(gameState.history) - 2
                                          ELSE Len(gameState.history) - 1
             /\ gameState'.turn = "w"]_vars

-----------------------------------------------------------------------------
(* C39: once isGameOver is set no makeMove is applied to the position, by  *)
(* a click, by the promotion dialog or by makeBotMove: history grows only  *)
(* from a position that is not over                                        *)
C39_NoMoveAfterGameOver ==
  [][gameState.isGameOver => Len(gameState'.history) <= Len(gameState.history)]_vars
====
